---- MODULE Spec2Model ----
(***************************************************************************)
(* LabDabbler visual lab builder: the topology model kept by LabBuilder,   *)
(* the TopologyCanvas pointer/keyboard handlers, the two validators and    *)
(* the containerlab export of TopologyExporter.                            *)
(*                                                                         *)
(* Conventions.                                                            *)
(*  - A JavaScript object used as a map (topology.nodes, the exported      *)
(*    nodes mapping) is a sequence of [key, value] entries in insertion    *)
(*    order, which is the order Object.keys/values/entries enumerate.      *)
(*  - A JavaScript record is a TLA+ record; a field that is absent reads   *)
(*    as UNDEFINED; {...a, ...b} is Spread(a, b).                          *)
(*  - A state cell that holds null or an object (dragging, linking,        *)
(*    contextMenu, linkPreview) is <<>> for null and <<object>> otherwise; *)
(*    a cell that holds null or an id string holds NULL or the string.     *)
(*  - JavaScript arrays are 0-based, sequences here are 1-based:           *)
(*    link.endpoints[0] is endpoints[1].                                   *)
(*  - Pointer coordinates are taken relative to the canvas rectangle       *)
(*    (clientX - rect.left, clientY - rect.top).                           *)
(*  - Link fields no modelled handler reads (properties, vlan_config,      *)
(*    advanced, endpoint ip/vlan/mode) are left out of the link record.    *)
(***************************************************************************)
EXTENDS Integers, Sequences, FiniteSets, TLC

\* ------------------------------------------------------------- bounds
\* Fresh node ids generated in one run (Date.now()/Math.random() ids).
MaxNodeIds == 4
\* Fresh link ids generated in one run.
MaxLinkIds == 2
\* Pointer coordinates range over 0..MaxCoord on each axis.
MaxCoord == 1
\* Node positions and the pan offset are kept within -MaxPos..MaxPos.
MaxPos == 2
\* Topologies handed to the model calls have at most this many nodes and links.
MaxModelNodes == 2
MaxModelLinks == 3
\* user events handled in one editing session
MaxEvents == 5
\* largest width and height of the canvas rectangle (SpecView)
MaxRect == 2
\* nodes of an input topology that differ in their names (SpecExport)
MaxNameNodes == 4
\* nodes of an input topology that differ in their fields, and its links
MaxFieldNodes == 2
MaxInputLinks == 2

\* ---------------------------------------------------- program constants
\* handleDrop: .substring(0, 20)
NameCut == 20
DuplicateOffset == 50
\* LabBuilder: useState(1) for zoomLevel
ZoomLevel == 1

NULL == "null"
UNDEFINED == "undefined"

\* ------------------------------------------------------ JavaScript values
\* {...a, ...b}: the fields of b override those of a.
Spread(a, b) == b @@ a

\* obj.f, undefined when the field is absent.
Field(obj, f) == IF f \in DOMAIN obj THEN obj[f] ELSE UNDEFINED

\* !v for the string-valued fields the handlers test.
Falsy(v) == v \in {"", UNDEFINED, NULL}

\* a || b
OrElse(a, b) == IF Falsy(a) THEN b ELSE a

\* `${v}` of a string, undefined or null
Str(v) == v

Min(a, b) == IF a < b THEN a ELSE b

\* s.trim() === '' : only blanks (or nothing) in s
IsBlank(s) == \A i \in 1..Len(s) : SubSeq(s, i, i) = " "

UpperCase == "ABCDEFGHIJKLMNOPQRSTUVWXYZ"
LowerCase == "abcdefghijklmnopqrstuvwxyz"
Digits == "0123456789"

\* one character of s.toLowerCase()
LowerChar(c) ==
  IF \E i \in 1..Len(UpperCase) : SubSeq(UpperCase, i, i) = c
  THEN LET i == CHOOSE i \in 1..Len(UpperCase) : SubSeq(UpperCase, i, i) = c
       IN SubSeq(LowerCase, i, i)
  ELSE c

\* [a-z0-9]
IsLowerAlnum(c) ==
  \/ \E i \in 1..Len(LowerCase) : SubSeq(LowerCase, i, i) = c
  \/ \E i \in 1..Len(Digits) : SubSeq(Digits, i, i) = c

\* name.toLowerCase().replace(/[^a-z0-9]/g, '-')
RECURSIVE SanitizeName(_)
SanitizeName(s) ==
  IF Len(s) = 0 THEN ""
  ELSE LET c == LowerChar(SubSeq(s, 1, 1))
       IN (IF IsLowerAlnum(c) THEN c ELSE "-") \o SanitizeName(SubSeq(s, 2, Len(s)))

\* s.substring(0, n)
Substring0(s, n) == SubSeq(s, 1, Min(n, Len(s)))

\* array.join(sep); undefined and null elements join as ''
RECURSIVE Join(_, _)
Join(seq, sep) ==
  IF Len(seq) = 0 THEN ""
  ELSE LET first == IF seq[1] \in {UNDEFINED, NULL} THEN "" ELSE seq[1]
       IN IF Len(seq) = 1 THEN first
          ELSE first \o sep \o Join(Tail(seq), sep)

\* array.indexOf(v), 1-based; 0 when absent
IndexOfValue(seq, v) ==
  IF \E i \in DOMAIN seq : seq[i] = v
  THEN CHOOSE i \in DOMAIN seq : seq[i] = v /\ \A j \in 1..(i - 1) : seq[j] # v
  ELSE 0

\* a list that keeps every occurrence
Unique_KeepAll(seq) == seq

\* [...new Set(array)]: first occurrences, in order
Unique(seq) ==
  LET keep == {i \in DOMAIN seq : IndexOfValue(seq, seq[i]) = i}
      F[n \in 0..Len(seq)] ==
        IF n = 0 THEN <<>>
        ELSE IF n \in keep THEN Append(F[n - 1], seq[n]) ELSE F[n - 1]
  IN F[Len(seq)]

\* ------------------------------------------------- objects used as maps
Keys(obj) == {obj[i].key : i \in DOMAIN obj}
KeySeq(obj) == [i \in DOMAIN obj |-> obj[i].key]
Values(obj) == [i \in DOMAIN obj |-> obj[i].value]
HasKey(obj, k) == k \in Keys(obj)
KeyIndex(obj, k) == CHOOSE i \in DOMAIN obj : obj[i].key = k
\* obj[k] for a key that is present
Get(obj, k) == obj[KeyIndex(obj, k)].value
\* { ...obj, [k]: v }: an existing key keeps its place, a new one goes last
Put(obj, k, v) ==
  IF HasKey(obj, k)
  THEN [obj EXCEPT ![KeyIndex(obj, k)] = [key |-> k, value |-> v]]
  ELSE Append(obj, [key |-> k, value |-> v])
\* delete obj[k]
Delete(obj, k) == SelectSeq(obj, LAMBDA e : e.key # k)

\* ------------------------------------------------------------- inputs
\* pointer positions of the events
Coords == 0..MaxCoord
Points == {[x |-> i, y |-> i] : i \in Coords}

\* Catalog items shown by the palette (loadContainers); kind is optional.
Catalog ==
  { [name |-> "alpine", kind |-> "linux", image |-> "alpine:latest"],
    [name |-> "Web Server", image |-> "alpine:latest"] }

NodeIdOf(n) == "node-" \o ToString(n)
LinkIdOf(n) == "link-" \o ToString(n)
NodeIdUniverse == {NodeIdOf(n) : n \in 1..MaxNodeIds}
LinkIdUniverse == {LinkIdOf(n) : n \in 1..MaxLinkIds}

Interfaces == {"eth0", "eth1"}

VARIABLES
  topology,        \* LabBuilder: { name, nodes, links }
  selectedNode,    \* LabBuilder: null or a node id
  selectedLink,    \* LabBuilder: null or a link id
  showNodeConfig,  \* LabBuilder
  showLinkConfig,  \* LabBuilder
  dragging,        \* LabBuilder: null or { nodeId, startX, startY }
  linking,         \* LabBuilder: null or { sourceNode, sourceInterface }
  canvasOffset,    \* LabBuilder: { x, y }
  zoomLevel,       \* LabBuilder
  exportSettings,  \* TopologyExporter: containerPrefix, includeManagement, managementNetwork
  exportContent,   \* TopologyExporter: the export text, as lines; <<>> while closed
  exportIssues,    \* TopologyExporter: validationIssues
  validationErrors, \* LabBuilder
  isPanning,       \* TopologyCanvas
  panStart,        \* TopologyCanvas: { x, y }
  contextMenu,     \* TopologyCanvas: null or { type, nodeId | linkId }
  linkPreview,     \* TopologyCanvas: null or { x, y }
  nextNodeId,      \* number of node ids generated so far, plus one
  nextLinkId,      \* number of link ids generated so far, plus one
  pressed,         \* the element the mouse button went down on, or <<>>
  lastEvent,       \* the event or call handled last
  events,          \* number of events handled so far
  prev,            \* what the last call started from: the topology (SpecModel)
                   \* or the viewport (SpecView)
  kindTemplate,    \* NodeConfigPanel: null or the template held
  templateRequests, \* NodeConfigPanel: the kinds of the template requests that
                   \* were sent and not answered yet, in the order sent
  loading          \* LabBuilder: the catalog request is outstanding

vars == <<topology, selectedNode, selectedLink, showNodeConfig, showLinkConfig,
          dragging, linking, canvasOffset, zoomLevel, isPanning, panStart,
          contextMenu, linkPreview, exportSettings, exportContent, exportIssues,
          validationErrors, nextNodeId,
          nextLinkId, pressed, lastEvent, events, prev, kindTemplate,
          templateRequests, loading>>

EmptyTopology == [name |-> "custom-lab", nodes |-> <<>>, links |-> <<>>]

\* ------------------------------------------- LabBuilder: topology updates
\* the node addNode builds from a catalog item (or from a prepared node)
NewNode(nodeId, containerInfo, position) ==
  Spread([id |-> nodeId,
          name |-> SanitizeName(containerInfo.name),
          kind |-> OrElse(Field(containerInfo, "kind"), "linux"),
          image |-> Field(containerInfo, "image"),
          position |-> position,
          config |-> [startup_config |-> "", env |-> <<>>, ports |-> <<>>,
                      volumes |-> <<>>]],
         containerInfo)

addNode(t, nodeId, containerInfo, position) ==
  [t EXCEPT !.nodes = Put(t.nodes, nodeId, NewNode(nodeId, containerInfo, position))]

updateNode(t, nodeId, updates) ==
  [t EXCEPT !.nodes =
     Put(t.nodes, nodeId,
         Spread(IF HasKey(t.nodes, nodeId) THEN Get(t.nodes, nodeId) ELSE <<>>,
                updates))]

\* removeNode filtering on the first endpoint only
removeNode_FirstEndpointOnly(t, nodeId) ==
  [t EXCEPT !.nodes = Delete(t.nodes, nodeId),
            !.links = SelectSeq(t.links,
                        LAMBDA link : link.endpoints[1].node # nodeId)]

removeNode(t, nodeId) ==
  [t EXCEPT !.nodes = Delete(t.nodes, nodeId),
            !.links = SelectSeq(t.links,
                        LAMBDA link : /\ link.endpoints[1].node # nodeId
                                      /\ link.endpoints[2].node # nodeId)]

NewLink_SwappedEndpoints(linkId, endpoint1, endpoint2) ==
  [id |-> linkId,
   name |-> Str(endpoint1.node) \o "-" \o Str(endpoint2.node),
   type |-> "ethernet",
   endpoints |->
     << [node |-> endpoint2.node,
         interface |-> OrElse(Field(endpoint2, "interface"), "eth0")],
        [node |-> endpoint1.node,
         interface |-> OrElse(Field(endpoint1, "interface"), "eth0")] >>]

NewLink(linkId, endpoint1, endpoint2) ==
  [id |-> linkId,
   name |-> Str(endpoint1.node) \o "-" \o Str(endpoint2.node),
   type |-> "ethernet",
   endpoints |->
     << [node |-> endpoint1.node,
         interface |-> OrElse(Field(endpoint1, "interface"), "eth0")],
        [node |-> endpoint2.node,
         interface |-> OrElse(Field(endpoint2, "interface"), "eth0")] >>]

addLink(t, linkId, endpoint1, endpoint2) ==
  [t EXCEPT !.links = Append(t.links, NewLink(linkId, endpoint1, endpoint2))]

removeLink_ByName(t, linkId) ==
  [t EXCEPT !.links = SelectSeq(t.links, LAMBDA link : link.name # linkId)]

removeLink(t, linkId) ==
  [t EXCEPT !.links = SelectSeq(t.links, LAMBDA link : link.id # linkId)]

updateLink(t, linkId, updates) ==
  [t EXCEPT !.links =
     [i \in DOMAIN t.links |->
        IF t.links[i].id = linkId THEN Spread(t.links[i], updates) ELSE t.links[i]]]

\* ------------------------------------------------------------ validation
\* topology.nodes[id]: the node, or UNDEFINED (as a record with no fields
\* it is told apart by NodeExists)
NodeExists(t, id) == HasKey(t.nodes, id)

\* names.filter((name, index) => names.indexOf(name) !== index)
DuplicatesOf(names) ==
  LET F[n \in 0..Len(names)] ==
        IF n = 0 THEN <<>>
        ELSE IF IndexOfValue(names, names[n]) # n
             THEN Append(F[n - 1], names[n])
             ELSE F[n - 1]
  IN F[Len(names)]

NodeNames(t) == [i \in DOMAIN t.nodes |-> Field(t.nodes[i].value, "name")]

\* LabBuilder.validateTopology: the list of error messages
BuilderIssuesDuplicates(t) ==
  LET duplicateNames == DuplicatesOf(NodeNames(t))
  IN IF Len(duplicateNames) > 0
     THEN << "Duplicate node names found: " \o Join(Unique(duplicateNames), ", ") >>
     ELSE <<>>

ConnectedNodes(t) ==
  {t.links[i].endpoints[e].node : i \in DOMAIN t.links, e \in {1, 2}}

BuilderIssuesIsolated(t) ==
  LET isolatedNodes ==
        SelectSeq(KeySeq(t.nodes), LAMBDA nodeId : nodeId \notin ConnectedNodes(t))
      names == [i \in DOMAIN isolatedNodes |->
                  Field(Get(t.nodes, isolatedNodes[i]), "name")]
  IN IF Len(isolatedNodes) > 0
     THEN << "Isolated nodes (no connections): " \o Join(names, ", ") >>
     ELSE <<>>

BuilderIssuesOfNode(nodeId, node) ==
  (IF Falsy(Field(node, "name")) \/ IsBlank(Field(node, "name"))
   THEN << "Node " \o nodeId \o " has no name" >> ELSE <<>>)
  \o
  (IF Falsy(Field(node, "image")) \/ IsBlank(Field(node, "image"))
   THEN << "Node " \o Str(Field(node, "name")) \o " has no container image specified" >>
   ELSE <<>>)

BuilderIssuesNodes(t) ==
  LET F[n \in 0..Len(t.nodes)] ==
        IF n = 0 THEN <<>>
        ELSE F[n - 1] \o BuilderIssuesOfNode(t.nodes[n].key, t.nodes[n].value)
  IN F[Len(t.nodes)]

BuilderValidationErrors(t) ==
  BuilderIssuesDuplicates(t) \o BuilderIssuesIsolated(t) \o BuilderIssuesNodes(t)

\* TopologyExporter.validateTopology: the list of issues
ExporterIssuesDuplicates(t) ==
  LET duplicates == DuplicatesOf(NodeNames(t))
  IN IF Len(duplicates) > 0
     THEN << "Duplicate node names: " \o Join(Unique(duplicates), ", ") >>
     ELSE <<>>

ExporterIssuesNodes(t) ==
  LET Missing(node) == \/ Falsy(Field(node, "name"))
                       \/ Falsy(Field(node, "image"))
                       \/ Falsy(Field(node, "kind"))
      F[n \in 0..Len(t.nodes)] ==
        IF n = 0 THEN <<>>
        ELSE IF Missing(t.nodes[n].value)
             THEN Append(F[n - 1], "Node " \o Str(Field(t.nodes[n].value, "id"))
                                     \o " missing required fields")
             ELSE F[n - 1]
  IN F[Len(t.nodes)]

ExporterIssuesLinks(t) ==
  LET F[n \in 0..Len(t.links)] ==
        IF n = 0 THEN <<>>
        ELSE IF \/ ~NodeExists(t, t.links[n].endpoints[1].node)
                \/ ~NodeExists(t, t.links[n].endpoints[2].node)
             THEN Append(F[n - 1], "Link " \o ToString(n) \o " references non-existent nodes")
             ELSE F[n - 1]
  IN F[Len(t.links)]

validateTopology(t) ==
  ExporterIssuesDuplicates(t) \o ExporterIssuesNodes(t) \o ExporterIssuesLinks(t)

\* const isValid = validationIssues.length === 0; Copy, Download, Export to
\* Codespaces and Save & Launch are disabled={!isValid}
isValid(t) == Len(validateTopology(t)) = 0

\* ---------------------------------------------------------------- export
\* TopologyExporter state defaults
DefaultContainerPrefix == ""
DefaultIncludeManagement == TRUE
DefaultManagementNetwork == "mgmt"

\* node.config.startup_config of a node without a config bag is a TypeError
CompileThrows(t) == \E i \in DOMAIN t.nodes : "config" \notin DOMAIN t.nodes[i].value

\* the entry generateContainerlabYAML writes for one node
NodeConfigOf(node) ==
  LET c == node.config
      opt(f, present) == IF present THEN (f :> c[f]) ELSE <<>>
  IN [kind |-> Field(node, "kind"), image |-> Field(node, "image")]
     @@ opt("startup_config", ~Falsy(Field(c, "startup_config")))
     @@ opt("env", "env" \in DOMAIN c /\ DOMAIN c.env # {})
     @@ opt("ports", "ports" \in DOMAIN c /\ Len(c.ports) > 0)
     @@ opt("binds", "binds" \in DOMAIN c /\ Len(c.binds) > 0)
     @@ opt("volumes", "volumes" \in DOMAIN c /\ Len(c.volumes) > 0)

ExportedNodes_OrderByCall(t) ==
  LET order(n) == IF events % 2 = 0 THEN n ELSE Len(t.nodes) + 1 - n
      F[n \in 0..Len(t.nodes)] ==
        IF n = 0 THEN <<>>
        ELSE Put(F[n - 1], Field(t.nodes[order(n)].value, "name"),
                 NodeConfigOf(t.nodes[order(n)].value))
  IN F[Len(t.nodes)]

ExportedNodes(t) ==
  LET F[n \in 0..Len(t.nodes)] ==
        IF n = 0 THEN <<>>
        ELSE Put(F[n - 1], Field(t.nodes[n].value, "name"), NodeConfigOf(t.nodes[n].value))
  IN F[Len(t.nodes)]

ExportedLinks(t) ==
  LET F[n \in 0..Len(t.links)] ==
        IF n = 0 THEN <<>>
        ELSE LET link == t.links[n]
             IN IF /\ NodeExists(t, link.endpoints[1].node)
                   /\ NodeExists(t, link.endpoints[2].node)
                THEN Append(F[n - 1],
                       [endpoints |->
                          << Str(Field(Get(t.nodes, link.endpoints[1].node), "name"))
                               \o ":" \o Str(link.endpoints[1].interface),
                             Str(Field(Get(t.nodes, link.endpoints[2].node), "name"))
                               \o ":" \o Str(link.endpoints[2].interface) >>])
                ELSE F[n - 1]
  IN F[Len(t.links)]

\* generateContainerlabYAML for a topology whose nodes all carry a config bag
generateContainerlabYAML(t, containerPrefix, includeManagement, managementNetwork) ==
  [name |-> t.name,
   topology |-> [nodes |-> ExportedNodes(t), links |-> ExportedLinks(t)]]
  @@ (IF ~Falsy(containerPrefix) THEN [prefix |-> containerPrefix] ELSE <<>>)
  @@ (IF includeManagement
      THEN [mgmt |-> [network |-> managementNetwork, ipv4_subnet |-> "172.20.20.0/24"]]
      ELSE <<>>)

\* the document the exporter shows with its settings at their defaults
Compile(t) ==
  generateContainerlabYAML(t, DefaultContainerPrefix, DefaultIncludeManagement,
                           DefaultManagementNetwork)

\* ------------------------------------------------------ the export text
RECURSIVE Indent(_)
Indent(n) == IF n = 0 THEN "" ELSE "  " \o Indent(n - 1)

RECURSIVE Flatten(_)
Flatten(seqs) == IF seqs = <<>> THEN <<>> ELSE Head(seqs) \o Flatten(Tail(seqs))

\* processObject on a string, null or undefined value
YamlScalar(indent, key, value) ==
  IF value \in {NULL, UNDEFINED}
  THEN <<Indent(indent) \o key \o ": null">>
  ELSE <<Indent(indent) \o key \o ": \"" \o value \o "\"">>

\* processObject on an array of strings
YamlList(indent, key, items) ==
  IF Len(items) = 0
  THEN <<Indent(indent) \o key \o ": []">>
  ELSE <<Indent(indent) \o key \o ":">>
       \o [i \in DOMAIN items |-> Indent(indent) \o "  - " \o items[i]]

\* processObject on an object whose values are strings
YamlObject(indent, key, entries) ==
  <<Indent(indent) \o key \o ":">>
  \o Flatten([i \in DOMAIN entries |->
                YamlScalar(indent + 1, entries[i].key, entries[i].value)])

\* processObject on one entry of the nodes mapping
YamlNode(indent, entry) ==
  LET c == entry.value
      has(f) == f \in DOMAIN c
  IN <<Indent(indent) \o Str(entry.key) \o ":">>
     \o YamlScalar(indent + 1, "kind", c.kind)
     \o YamlScalar(indent + 1, "image", c.image)
     \o (IF has("startup_config")
         THEN YamlScalar(indent + 1, "startup_config", c.startup_config) ELSE <<>>)
     \o (IF has("env") THEN YamlObject(indent + 1, "env", c.env) ELSE <<>>)
     \o (IF has("ports") THEN YamlList(indent + 1, "ports", c.ports) ELSE <<>>)
     \o (IF has("binds") THEN YamlList(indent + 1, "binds", c.binds) ELSE <<>>)
     \o (IF has("volumes") THEN YamlList(indent + 1, "volumes", c.volumes) ELSE <<>>)

\* processObject on the links array: an array of objects
YamlLinks(indent, links) ==
  IF Len(links) = 0
  THEN <<Indent(indent) \o "links: []">>
  ELSE <<Indent(indent) \o "links:">>
       \o Flatten([i \in DOMAIN links |->
                     <<Indent(indent) \o "  -">>
                     \o YamlList(indent + 2, "endpoints", links[i].endpoints)])

\* generateYAMLString on the document generateContainerlabYAML returns
generateYAMLString(labConfig) ==
  YamlScalar(0, "name", Field(labConfig, "name"))
  \o <<"topology:">>
  \o <<Indent(1) \o "nodes:">>
  \o Flatten([i \in DOMAIN labConfig.topology.nodes |->
                YamlNode(2, labConfig.topology.nodes[i])])
  \o YamlLinks(1, labConfig.topology.links)
  \o (IF "prefix" \in DOMAIN labConfig
      THEN YamlScalar(0, "prefix", labConfig.prefix) ELSE <<>>)
  \o (IF "mgmt" \in DOMAIN labConfig
      THEN <<"mgmt:">>
           \o YamlScalar(1, "network", labConfig.mgmt.network)
           \o YamlScalar(1, "ipv4_subnet", labConfig.mgmt.ipv4_subnet)
      ELSE <<>>)

\* the text the exporter shows in containerlab format; the render throws
\* when generateContainerlabYAML does
exportContentOf(t, settings) ==
  IF CompileThrows(t) THEN <<"TypeError">>
  ELSE generateYAMLString(
         generateContainerlabYAML(t, settings.containerPrefix,
                                  settings.includeManagement,
                                  settings.managementNetwork))

DefaultSettings ==
  [containerPrefix |-> DefaultContainerPrefix,
   includeManagement |-> DefaultIncludeManagement,
   managementNetwork |-> DefaultManagementNetwork]

exporterVars == <<exportSettings, exportContent, exportIssues>>

panelVars == <<kindTemplate, templateRequests>>

\* the node panel is not shown: no template held, no request sent
PanelClosed ==
  /\ kindTemplate = <<>>
  /\ templateRequests = <<>>

\* the exporter dialog is not shown
ExporterClosed ==
  /\ exportSettings = DefaultSettings
  /\ exportContent = <<>>
  /\ exportIssues = <<>>

\* ===================================================== the model calls
\* The topology model's mutators (LabBuilder's callbacks), each applied once
\* to a topology built by addNode and addLink.

CatalogItemFor(n) ==
  IF n % 2 = 1 THEN [name |-> "alpine", kind |-> "linux", image |-> "alpine:latest"]
  ELSE [name |-> "Web Server", image |-> "alpine:latest"]

Origin == [x |-> 0, y |-> 0]

\* the nodes with numbers in S, added in increasing order
ModelNodes(S) ==
  LET F[n \in 0..MaxModelNodes] ==
        IF n = 0 THEN EmptyTopology
        ELSE IF n \in S
             THEN addNode(F[n - 1], NodeIdOf(n), CatalogItemFor(n), Origin)
             ELSE F[n - 1]
  IN F[MaxModelNodes]

\* t with one link added per pair of ends
ModelLinks(t, ends) ==
  LET F[n \in 0..Len(ends)] ==
        IF n = 0 THEN t
        ELSE addLink(F[n - 1], LinkIdOf(n), [node |-> ends[n][1]], [node |-> ends[n][2]])
  IN F[Len(ends)]

ModelTopologies ==
  UNION { LET t == ModelNodes(S)
          IN { ModelLinks(t, ends) :
                 ends \in UNION { [1..m -> Keys(t.nodes) \X Keys(t.nodes)] :
                                    m \in 0..MaxModelLinks } }
          : S \in SUBSET (1..MaxModelNodes) }

ModelNodeIds == {NodeIdOf(n) : n \in 1..(MaxModelNodes + 1)}
ModelLinkIds == {LinkIdOf(n) : n \in 1..(MaxModelLinks + 1)}
NodeUpdates == {[position |-> [x |-> 1, y |-> 1]], [name |-> "r1"]}
LinkUpdates == {[name |-> "uplink"]}

InitCanvas ==
  /\ dragging = <<>>
  /\ linking = <<>>
  /\ canvasOffset = [x |-> 0, y |-> 0]
  /\ isPanning = FALSE
  /\ panStart = [x |-> 0, y |-> 0]
  /\ contextMenu = <<>>
  /\ linkPreview = <<>>
  /\ pressed = <<>>
  /\ showNodeConfig = FALSE
  /\ showLinkConfig = FALSE

InitModel ==
  /\ topology \in ModelTopologies
  /\ prev = topology
  /\ selectedNode \in {NULL, NodeIdOf(1)}
  /\ selectedLink \in {NULL, LinkIdOf(1)}
  /\ nextNodeId = MaxModelNodes + 1
  /\ nextLinkId = MaxModelLinks + 1
  /\ lastEvent = [type |-> "init"]
  /\ events = 0
  /\ zoomLevel = ZoomLevel
  /\ ExporterClosed
  /\ PanelClosed
  /\ loading = FALSE
  /\ validationErrors = <<>>
  /\ InitCanvas

canvasVars == <<dragging, linking, canvasOffset, isPanning, panStart, contextMenu,
                linkPreview, pressed>>

\* one more event or call is handled
Tick ==
  /\ events < MaxEvents
  /\ events' = events + 1

\* a model call is applied to the topology handed in
ModelCall(event) ==
  /\ lastEvent.type = "init"
  /\ Tick
  /\ UNCHANGED <<zoomLevel, loading, exporterVars, panelVars, validationErrors>>
  /\ lastEvent' = event
  /\ prev' = topology
  /\ UNCHANGED canvasVars

\* removeNode, with its selection reset
RemoveNodeCallback(nodeId) ==
  /\ topology' = removeNode(topology, nodeId)
  /\ IF selectedNode = nodeId
     THEN selectedNode' = NULL /\ showNodeConfig' = FALSE
     ELSE UNCHANGED <<selectedNode, showNodeConfig>>

\* removeLink, with its selection reset
RemoveLinkCallback(linkId) ==
  /\ topology' = removeLink(topology, linkId)
  /\ IF selectedLink = linkId
     THEN selectedLink' = NULL /\ showLinkConfig' = FALSE
     ELSE UNCHANGED <<selectedLink, showLinkConfig>>

ApiAddNode(containerInfo, position) ==
  /\ ModelCall([type |-> "addNode", id |-> NodeIdOf(nextNodeId)])
  /\ topology' = addNode(topology, NodeIdOf(nextNodeId), containerInfo, position)
  /\ nextNodeId' = nextNodeId + 1
  /\ UNCHANGED <<selectedNode, selectedLink, showNodeConfig, showLinkConfig, nextLinkId>>

ApiUpdateNode(nodeId, updates) ==
  /\ ModelCall([type |-> "updateNode", id |-> nodeId])
  /\ topology' = updateNode(topology, nodeId, updates)
  /\ UNCHANGED <<selectedNode, selectedLink, showNodeConfig, showLinkConfig,
                 nextNodeId, nextLinkId>>

ApiRemoveNode(nodeId) ==
  /\ ModelCall([type |-> "removeNode", id |-> nodeId])
  /\ RemoveNodeCallback(nodeId)
  /\ UNCHANGED <<selectedLink, showLinkConfig, nextNodeId, nextLinkId>>

ApiAddLink(endpoint1, endpoint2) ==
  /\ ModelCall([type |-> "addLink", id |-> LinkIdOf(nextLinkId)])
  /\ topology' = addLink(topology, LinkIdOf(nextLinkId), endpoint1, endpoint2)
  /\ nextLinkId' = nextLinkId + 1
  /\ UNCHANGED <<selectedNode, selectedLink, showNodeConfig, showLinkConfig, nextNodeId>>

ApiRemoveLink(linkId) ==
  /\ ModelCall([type |-> "removeLink", id |-> linkId])
  /\ RemoveLinkCallback(linkId)
  /\ UNCHANGED <<selectedNode, showNodeConfig, nextNodeId, nextLinkId>>

ApiUpdateLink(linkId, updates) ==
  /\ ModelCall([type |-> "updateLink", id |-> linkId])
  /\ topology' = updateLink(topology, linkId, updates)
  /\ UNCHANGED <<selectedNode, selectedLink, showNodeConfig, showLinkConfig,
                 nextNodeId, nextLinkId>>

\* removeLink with the id the addLink before it returned
ApiRemoveAddedLink ==
  /\ lastEvent.type = "addLink"
  /\ Tick
  /\ UNCHANGED <<zoomLevel, loading, exporterVars, panelVars, validationErrors>>
  /\ lastEvent' = [type |-> "removeAddedLink", id |-> lastEvent.id]
  /\ RemoveLinkCallback(lastEvent.id)
  /\ UNCHANGED <<selectedNode, showNodeConfig, nextNodeId, nextLinkId, prev>>
  /\ UNCHANGED canvasVars

NextModel ==
  \/ \E c \in Catalog, p \in Points : ApiAddNode(c, p)
  \/ \E id \in ModelNodeIds, u \in NodeUpdates : ApiUpdateNode(id, u)
  \/ \E id \in ModelNodeIds : ApiRemoveNode(id)
  \/ \E a, b \in Keys(topology.nodes), i \in Interfaces :
       ApiAddLink([node |-> a, interface |-> i], [node |-> b])
  \/ \E id \in ModelLinkIds : ApiRemoveLink(id)
  \/ \E id \in ModelLinkIds, u \in LinkUpdates : ApiUpdateLink(id, u)
  \/ ApiRemoveAddedLink

SpecModel == InitModel /\ [][NextModel]_vars

\* ------------------------------------------------ claims on the model calls
LinkRefersTo(link, id) ==
  link.endpoints[1].node = id \/ link.endpoints[2].node = id

LinkIdsOf(t) == {t.links[i].id : i \in DOMAIN t.links}

HasSelfLoop(t) ==
  \E i \in DOMAIN t.links : t.links[i].endpoints[1].node = t.links[i].endpoints[2].node

\* C1: removeNode(id) of a node id that is a key of the node map leaves a
\* topology where id is no key, no link has an endpoint at id, every other
\* node is unchanged and the links that did not reference id are all kept,
\* unchanged and in their previous relative order.
C1_RemoveNodeCascades ==
  (lastEvent.type = "removeNode" /\ HasKey(prev.nodes, lastEvent.id)) =>
    LET id == lastEvent.id
        kept == {i \in DOMAIN prev.links : ~LinkRefersTo(prev.links[i], id)}
    IN /\ ~HasKey(topology.nodes, id)
       /\ \A i \in DOMAIN topology.links : ~LinkRefersTo(topology.links[i], id)
       /\ Keys(topology.nodes) = Keys(prev.nodes) \ {id}
       /\ \A k \in Keys(topology.nodes) : Get(topology.nodes, k) = Get(prev.nodes, k)
       /\ Len(topology.links) = Cardinality(kept)
       /\ \A i \in kept :
            topology.links[Cardinality({j \in kept : j <= i})] = prev.links[i]
       /\ topology.name = prev.name

\* removeNode has removed a node with an incident link and kept another node
\* and two links that did not reference it
C1_Witness ==
  /\ lastEvent.type = "removeNode"
  /\ HasKey(prev.nodes, lastEvent.id)
  /\ \E i \in DOMAIN prev.links : LinkRefersTo(prev.links[i], lastEvent.id)
  /\ Len(topology.links) >= 2
  /\ Len(topology.nodes) >= 1

\* C4: updateNode, removeNode, updateLink and removeLink called with an id
\* that is not present in the topology leave the node keys, every node record
\* and the link sequence as they were.
C4_AbsentIdIsNoOp ==
  ( \/ /\ lastEvent.type \in {"updateNode", "removeNode"}
       /\ ~HasKey(prev.nodes, lastEvent.id)
    \/ /\ lastEvent.type \in {"updateLink", "removeLink"}
       /\ lastEvent.id \notin LinkIdsOf(prev) )
  => /\ topology.nodes = prev.nodes
     /\ topology.links = prev.links

\* C5: a topology with a link whose two endpoints reference the same node id
\* has a validation issue, so that copy, download and save-and-launch (all
\* disabled unless isValid) are refused.
C5_SelfLoopRefused ==
  HasSelfLoop(topology) =>
    /\ ~isValid(topology)
    /\ Len(BuilderValidationErrors(topology)) > 0

\* ============================================================ the editor
\* LabBuilder with its TopologyCanvas: palette drops, pointer and key events,
\* template loading and clearing.

\* --------------------------------------------------- viewport transforms
getCanvasCoordinates(client) ==
  [x |-> (client.x - canvasOffset.x) \div ZoomLevel,
   y |-> (client.y - canvasOffset.y) \div ZoomLevel]

InRange(v) == v >= -MaxPos /\ v <= MaxPos

\* ------------------------------------------------------ what is rendered
\* renderNode binds the handlers of a node to node.id
RenderedNodeIds == {Field(topology.nodes[i].value, "id") : i \in DOMAIN topology.nodes}

\* renderLink draws a link only when both of its nodes are found
RenderedLinkIds ==
  {topology.links[i].id : i \in
     {j \in DOMAIN topology.links :
        /\ NodeExists(topology, topology.links[j].endpoints[1].node)
        /\ NodeExists(topology, topology.links[j].endpoints[2].node)}}

\* LabBuilder's onNodeSelect
OnNodeSelect(nodeId) ==
  /\ selectedNode' = nodeId
  /\ showNodeConfig' = TRUE

\* LabBuilder's onLinkSelect
OnLinkSelect(linkId) ==
  /\ selectedLink' = linkId
  /\ showLinkConfig' = TRUE

\* ------------------------------------------------------- lab templates
\* Containerlab documents offered by the template browser. An endpoint
\* string "node:interface" is kept as its ':'-separated parts.
LabDocs ==
  { [name |-> "two-routers",
     topology |->
       [nodes |-> << [key |-> "r1", value |-> [kind |-> "linux", image |-> "alpine:latest"]],
                     [key |-> "r2", value |-> [image |-> "alpine:latest"]] >>,
        links |-> << [endpoints |-> << <<"r1", "eth1">>, <<"r2">> >>] >>]] }

\* the node convertContainerlabToTopology builds (the fields the editor and
\* the exporter read; sysctls, capabilities, limits and the like are left out)
TemplateNode(nodeId, nodeName, nodeConfig, position) ==
  [id |-> nodeId,
   name |-> nodeName,
   kind |-> OrElse(Field(nodeConfig, "kind"), "linux"),
   image |-> OrElse(Field(nodeConfig, "image"), ""),
   position |-> position,
   startup_config |-> OrElse(Field(nodeConfig, "startup_config"), ""),
   env |-> <<>>, ports |-> <<>>, volumes |-> <<>>, binds |-> <<>>]

\* Object.keys(nodes).find(id => nodes[id].name === name), or UNDEFINED
FindNodeIdByName(nodes, name) ==
  LET hits == {i \in DOMAIN nodes : nodes[i].value.name = name}
  IN IF hits = {} THEN UNDEFINED
     ELSE nodes[CHOOSE i \in hits : \A j \in hits : i <= j].key

\* [a, b] = s.split(':'): b is undefined when s has no ':'
SplitPart(parts, n) == IF n <= Len(parts) THEN parts[n] ELSE UNDEFINED

convertContainerlabToTopology(labData, firstNodeId, firstLinkId, positions) ==
  LET docNodes == labData.topology.nodes
      nodes == [i \in DOMAIN docNodes |->
                  [key |-> NodeIdOf(firstNodeId + i - 1),
                   value |-> TemplateNode(NodeIdOf(firstNodeId + i - 1), docNodes[i].key,
                                          docNodes[i].value, positions[i])]]
      docLinks == labData.topology.links
      F[n \in 0..Len(docLinks)] ==
        IF n = 0 THEN <<>>
        ELSE LET node1 == SplitPart(docLinks[n].endpoints[1], 1)
                 node2 == SplitPart(docLinks[n].endpoints[2], 1)
                 node1Id == FindNodeIdByName(nodes, node1)
                 node2Id == FindNodeIdByName(nodes, node2)
             IN IF node1Id # UNDEFINED /\ node2Id # UNDEFINED
                THEN Append(F[n - 1],
                       [id |-> LinkIdOf(firstLinkId + n - 1),
                        name |-> node1 \o "-" \o node2,
                        type |-> OrElse(Field(docLinks[n], "type"), "ethernet"),
                        endpoints |->
                          << [node |-> node1Id,
                              interface |-> OrElse(SplitPart(docLinks[n].endpoints[1], 2), "eth0")],
                             [node |-> node2Id,
                              interface |-> OrElse(SplitPart(docLinks[n].endpoints[2], 2), "eth0")] >>])
                ELSE F[n - 1]
  IN [name |-> labData.name, nodes |-> nodes, links |-> F[Len(docLinks)]]

\* ---------------------------------------------------------------- events
Init ==
  /\ topology = EmptyTopology
  /\ prev = EmptyTopology
  /\ selectedNode = NULL
  /\ selectedLink = NULL
  /\ nextNodeId = 1
  /\ nextLinkId = 1
  /\ lastEvent = [type |-> "init"]
  /\ events = 0
  /\ zoomLevel = ZoomLevel
  /\ ExporterClosed
  /\ PanelClosed
  /\ loading = FALSE
  /\ validationErrors = <<>>
  /\ InitCanvas

\* handleDrop of a palette item at a pointer position; the node it prepares
\* is handed to addNode through window.labBuilderAddNode
Drop(containerData, client) ==
  /\ pressed = <<>>
  /\ Tick
  /\ UNCHANGED <<zoomLevel, loading, exporterVars, panelVars, validationErrors>>
  /\ nextNodeId + 1 <= MaxNodeIds
  /\ LET coords == getCanvasCoordinates(client)
         newNode ==
           Spread([id |-> NodeIdOf(nextNodeId),
                   name |-> Substring0(SanitizeName(containerData.name), NameCut),
                   kind |-> OrElse(Field(containerData, "kind"), "linux"),
                   image |-> Field(containerData, "image"),
                   position |-> coords,
                   config |-> [startup_config |-> "", env |-> <<>>, ports |-> <<>>,
                               volumes |-> <<>>]],
                  containerData)
     IN topology' = addNode(topology, NodeIdOf(nextNodeId + 1), newNode, coords)
  /\ nextNodeId' = nextNodeId + 2
  /\ lastEvent' = [type |-> "drop"]
  /\ UNCHANGED <<selectedNode, selectedLink, showNodeConfig, showLinkConfig, dragging,
                 linking, canvasOffset, isPanning, panStart, contextMenu, linkPreview,
                 nextLinkId, pressed, prev>>

\* handleNodeMouseDown; it stops the event, so handleCanvasMouseDown is not run
NodeMouseDown(nodeId, button, shiftKey, client) ==
  /\ pressed = <<>>
  /\ Tick
  /\ UNCHANGED <<zoomLevel, loading, exporterVars, panelVars, validationErrors>>
  /\ nodeId \in RenderedNodeIds
  /\ pressed' = <<[on |-> "node", id |-> nodeId, button |-> button]>>
  /\ lastEvent' = [type |-> "nodeMouseDown", id |-> nodeId, button |-> button]
  /\ IF button = 0
     THEN IF shiftKey
          THEN /\ linking' = <<[sourceNode |-> nodeId, sourceInterface |-> "eth0"]>>
               /\ UNCHANGED <<selectedNode, showNodeConfig, dragging, contextMenu>>
          ELSE /\ OnNodeSelect(nodeId)
               /\ dragging' = <<[nodeId |-> nodeId, startX |-> client.x, startY |-> client.y]>>
               /\ UNCHANGED <<linking, contextMenu>>
     ELSE /\ contextMenu' = <<[type |-> "node", nodeId |-> nodeId]>>
          /\ UNCHANGED <<selectedNode, showNodeConfig, dragging, linking>>
  /\ UNCHANGED <<topology, selectedLink, showLinkConfig, canvasOffset, isPanning,
                 panStart, linkPreview, nextNodeId, nextLinkId, prev>>

\* handleNodeMouseUp; it stops the event, so the document's mouseup listener
\* (handleCanvasMouseUp) is not run
NodeMouseUp(nodeId) ==
  /\ pressed # <<>>
  /\ Tick
  /\ UNCHANGED <<zoomLevel, loading, exporterVars, panelVars, validationErrors>>
  /\ nodeId \in RenderedNodeIds
  /\ pressed' = <<>>
  /\ IF linking # <<>> /\ linking[1].sourceNode # nodeId
     THEN /\ nextLinkId <= MaxLinkIds
          /\ topology' = addLink(topology, LinkIdOf(nextLinkId),
                                 [node |-> linking[1].sourceNode,
                                  interface |-> linking[1].sourceInterface],
                                 [node |-> nodeId, interface |-> "eth0"])
          /\ nextLinkId' = nextLinkId + 1
          /\ linking' = <<>>
          /\ lastEvent' = [type |-> "nodeMouseUp", id |-> nodeId, linked |-> TRUE]
     ELSE /\ lastEvent' = [type |-> "nodeMouseUp", id |-> nodeId, linked |-> FALSE]
          /\ UNCHANGED <<topology, nextLinkId, linking>>
  /\ UNCHANGED <<selectedNode, selectedLink, showNodeConfig, showLinkConfig, dragging,
                 canvasOffset, isPanning, panStart, contextMenu, linkPreview,
                 nextNodeId, prev>>

\* handleCanvasMouseDown: a mouse button goes down on the canvas background
\* or on a link line (on = "canvas" or a rendered link's id)
CanvasMouseDown(on, button, client) ==
  /\ pressed = <<>>
  /\ Tick
  /\ UNCHANGED <<zoomLevel, loading, exporterVars, panelVars, validationErrors>>
  /\ on \in {"canvas"} \cup RenderedLinkIds
  /\ pressed' = <<[on |-> "canvas", id |-> on, button |-> button]>>
  /\ lastEvent' = [type |-> "canvasMouseDown", on |-> on, button |-> button]
  /\ IF button = 0
     THEN /\ isPanning' = TRUE
          /\ panStart' = [x |-> client.x - canvasOffset.x, y |-> client.y - canvasOffset.y]
          /\ OnNodeSelect(NULL)
          /\ contextMenu' = <<>>
     ELSE UNCHANGED <<isPanning, panStart, selectedNode, showNodeConfig, contextMenu>>
  /\ UNCHANGED <<topology, selectedLink, showLinkConfig, dragging, linking, canvasOffset,
                 linkPreview, nextNodeId, nextLinkId, prev>>

\* handleCanvasMouseMove, the document's mousemove listener
MouseMove(client) ==
  /\ Tick
  /\ UNCHANGED <<zoomLevel, loading, exporterVars, panelVars, validationErrors>>
  /\ lastEvent' = [type |-> "mouseMove"]
  /\ IF isPanning
     THEN /\ canvasOffset' = [x |-> client.x - panStart.x, y |-> client.y - panStart.y]
          /\ InRange(canvasOffset'.x) /\ InRange(canvasOffset'.y)
          /\ UNCHANGED <<topology, dragging, linkPreview>>
     ELSE IF dragging # <<>>
     THEN IF NodeExists(topology, dragging[1].nodeId)
          THEN LET node == Get(topology.nodes, dragging[1].nodeId)
                   newPosition ==
                     [x |-> node.position.x + (client.x - dragging[1].startX) \div ZoomLevel,
                      y |-> node.position.y + (client.y - dragging[1].startY) \div ZoomLevel]
               IN /\ InRange(newPosition.x) /\ InRange(newPosition.y)
                  /\ topology' = updateNode(topology, dragging[1].nodeId,
                                            [position |-> newPosition])
                  /\ dragging' = <<[dragging[1] EXCEPT !.startX = client.x,
                                                       !.startY = client.y]>>
                  /\ UNCHANGED <<canvasOffset, linkPreview>>
          ELSE UNCHANGED <<topology, dragging, canvasOffset, linkPreview>>
     ELSE IF linking # <<>>
     THEN /\ linkPreview' = <<getCanvasCoordinates(client)>>
          /\ UNCHANGED <<topology, dragging, canvasOffset>>
     ELSE UNCHANGED <<topology, dragging, canvasOffset, linkPreview>>
  /\ UNCHANGED <<selectedNode, selectedLink, showNodeConfig, showLinkConfig, linking,
                 isPanning, panStart, contextMenu, nextNodeId, nextLinkId, pressed, prev>>

\* handleCanvasMouseUp
CanvasMouseUpHandler ==
  /\ isPanning' = FALSE
  /\ dragging' = <<>>
  /\ linking' = IF linking # <<>> /\ linkPreview = <<>> THEN <<>> ELSE linking
  /\ linkPreview' = <<>>

\* The mouse button is released anywhere but on a node: the document's mouseup
\* listener runs. A release on the link line the button went down on is also
\* a click on that line (onLinkSelect) or, with the secondary button, opens
\* the line's context menu.
CanvasMouseUp(on) ==
  /\ pressed # <<>>
  /\ Tick
  /\ UNCHANGED <<zoomLevel, loading, exporterVars, panelVars, validationErrors>>
  /\ on \in {"canvas"} \cup RenderedLinkIds
  /\ pressed' = <<>>
  /\ CanvasMouseUpHandler
  /\ lastEvent' = [type |-> "canvasMouseUp", on |-> on]
  /\ IF on # "canvas" /\ pressed[1].id = on /\ pressed[1].button = 0
     THEN /\ OnLinkSelect(on)
          /\ UNCHANGED contextMenu
     ELSE IF on # "canvas" /\ pressed[1].id = on
     THEN /\ contextMenu' = <<[type |-> "link", linkId |-> on]>>
          /\ UNCHANGED <<selectedLink, showLinkConfig>>
     ELSE UNCHANGED <<selectedLink, showLinkConfig, contextMenu>>
  /\ UNCHANGED <<topology, selectedNode, showNodeConfig, canvasOffset, panStart,
                 nextNodeId, nextLinkId, prev>>

\* handleKeyDown, the document's keydown listener
KeyDown(key) ==
  /\ Tick
  /\ UNCHANGED <<zoomLevel, loading, exporterVars, panelVars, validationErrors>>
  /\ lastEvent' = [type |-> "keyDown", key |-> key]
  /\ IF key = "Delete" /\ ~Falsy(selectedNode)
     THEN /\ RemoveNodeCallback(selectedNode)
          /\ UNCHANGED <<linking, contextMenu>>
     ELSE IF key = "Escape"
     THEN /\ linking' = <<>>
          /\ contextMenu' = <<>>
          /\ OnNodeSelect(NULL)
          /\ UNCHANGED topology
     ELSE UNCHANGED <<topology, selectedNode, showNodeConfig, linking, contextMenu>>
  /\ UNCHANGED <<selectedLink, showLinkConfig, dragging, canvasOffset, isPanning, panStart,
                 linkPreview, nextNodeId, nextLinkId, pressed, prev>>

\* the context menu's onMouseLeave
ContextMenuLeave ==
  /\ contextMenu # <<>>
  /\ Tick
  /\ UNCHANGED <<zoomLevel, loading, exporterVars, panelVars, validationErrors>>
  /\ contextMenu' = <<>>
  /\ lastEvent' = [type |-> "contextMenuLeave"]
  /\ UNCHANGED <<topology, selectedNode, selectedLink, showNodeConfig, showLinkConfig,
                 dragging, linking, canvasOffset, isPanning, panStart, linkPreview,
                 nextNodeId, nextLinkId, pressed, prev>>

\* the copy handleContextMenuAction('duplicate') prepares of a node
DuplicateOf(node, newId) ==
  Spread(node,
         [id |-> newId,
          name |-> Str(Field(node, "name")) \o "-copy",
          position |-> [x |-> node.position.x + DuplicateOffset,
                        y |-> node.position.y + DuplicateOffset]])

\* A button of a node's context menu is clicked: the release runs the
\* document's mouseup listener, the click runs handleContextMenuAction
ContextMenuAction(action) ==
  /\ pressed = <<>>
  /\ contextMenu # <<>>
  /\ contextMenu[1].type = "node"
  /\ Tick
  /\ UNCHANGED <<zoomLevel, loading, exporterVars, panelVars, validationErrors>>
  /\ CanvasMouseUpHandler
  /\ LET nodeId == contextMenu[1].nodeId
     IN /\ lastEvent' = [type |-> "contextMenuAction", action |-> action, id |-> nodeId]
        /\ IF action = "delete"
           THEN /\ RemoveNodeCallback(nodeId)
                /\ UNCHANGED nextNodeId
           ELSE IF action = "duplicate"
           THEN IF NodeExists(topology, nodeId)
                THEN /\ nextNodeId + 1 <= MaxNodeIds
                     /\ LET newNode == DuplicateOf(Get(topology.nodes, nodeId),
                                                   NodeIdOf(nextNodeId))
                        IN topology' = addNode(topology, NodeIdOf(nextNodeId + 1),
                                               newNode, newNode.position)
                     /\ nextNodeId' = nextNodeId + 2
                     /\ UNCHANGED <<selectedNode, showNodeConfig>>
                ELSE UNCHANGED <<topology, nextNodeId, selectedNode, showNodeConfig>>
           ELSE /\ OnNodeSelect(nodeId)
                /\ UNCHANGED <<topology, nextNodeId>>
  /\ contextMenu' = <<>>
  /\ UNCHANGED <<selectedLink, showLinkConfig, canvasOffset, panStart, nextLinkId,
                 pressed, prev>>

\* The "Delete Link" button of a link's context menu is clicked
ContextMenuDeleteLink ==
  /\ pressed = <<>>
  /\ contextMenu # <<>>
  /\ contextMenu[1].type = "link"
  /\ Tick
  /\ UNCHANGED <<zoomLevel, loading, exporterVars, panelVars, validationErrors>>
  /\ CanvasMouseUpHandler
  /\ RemoveLinkCallback(contextMenu[1].linkId)
  /\ contextMenu' = <<>>
  /\ lastEvent' = [type |-> "contextMenuDeleteLink", id |-> contextMenu[1].linkId]
  /\ UNCHANGED <<selectedNode, showNodeConfig, canvasOffset, panStart, nextNodeId,
                 nextLinkId, pressed, prev>>

\* LinkConfigPanel's config defaults
LinkPanelDefaults ==
  [id |-> "", name |-> "", type |-> "ethernet",
   endpoints |-> << [node |-> "", interface |-> "eth0", ip |-> "", vlan |-> "",
                     mode |-> "access"],
                    [node |-> "", interface |-> "eth0", ip |-> "", vlan |-> "",
                     mode |-> "access"] >>,
   properties |-> [bandwidth |-> "", mtu |-> "1500", delay |-> "0ms", jitter |-> "0ms",
                   loss |-> "0%", duplex |-> "full", auto_negotiate |-> TRUE],
   vlan_config |-> [enabled |-> FALSE, native_vlan |-> "1", allowed_vlans |-> "",
                    encapsulation |-> "802.1q"],
   advanced |-> [mac_learning |-> TRUE, stp_enabled |-> FALSE, storm_control |-> FALSE,
                 flow_control |-> FALSE]]

\* {showLinkConfig && selectedLink && <LinkConfigPanel .../>}
LinkPanelShown == showLinkConfig /\ selectedLink # NULL

\* the panel's config after its effect ran: { ...defaults, ...link }, link
\* being topology.links.find(l => l.id === selectedLink)
LinkPanelConfig ==
  LET found == SelectSeq(topology.links, LAMBDA l : l.id = selectedLink)
  IN Spread(LinkPanelDefaults, IF found = <<>> THEN <<>> ELSE found[1])

\* the node select of an endpoint changes in the link panel:
\* handleEndpointChange(index, 'node', value), handed to updateLink
EndpointChange(index, value) ==
  /\ pressed = <<>>
  /\ LinkPanelShown
  /\ value # LinkPanelConfig.endpoints[index].node
  /\ Tick
  /\ UNCHANGED <<zoomLevel, loading, exporterVars, panelVars, validationErrors>>
  /\ LET newEndpoints ==
           [LinkPanelConfig.endpoints EXCEPT
              ![index] = Spread(LinkPanelConfig.endpoints[index], [node |-> value])]
     IN topology' = updateLink(topology, selectedLink,
                               Spread(LinkPanelConfig, [endpoints |-> newEndpoints]))
  /\ lastEvent' = [type |-> "endpointChange", index |-> index, value |-> value]
  /\ UNCHANGED <<selectedNode, selectedLink, showNodeConfig, showLinkConfig, dragging,
                 linking, canvasOffset, isPanning, panStart, contextMenu, linkPreview,
                 nextNodeId, nextLinkId, pressed, prev>>

\* LabTemplates.handleLoadLab: the document is converted and handed to
\* LabBuilder's loadTemplate
LoadTemplate(labData, positions) ==
  /\ pressed = <<>>
  /\ Tick
  /\ UNCHANGED <<zoomLevel, loading, exporterVars, panelVars, validationErrors>>
  /\ nextNodeId + Len(labData.topology.nodes) - 1 <= MaxNodeIds
  /\ nextLinkId + Len(labData.topology.links) - 1 <= MaxLinkIds
  /\ topology' = convertContainerlabToTopology(labData, nextNodeId, nextLinkId, positions)
  /\ nextNodeId' = nextNodeId + Len(labData.topology.nodes)
  /\ nextLinkId' = nextLinkId + Len(labData.topology.links)
  /\ selectedNode' = NULL
  /\ selectedLink' = NULL
  /\ linking' = <<>>
  /\ showNodeConfig' = FALSE
  /\ showLinkConfig' = FALSE
  /\ lastEvent' = [type |-> "loadTemplate"]
  /\ UNCHANGED <<dragging, canvasOffset, isPanning, panStart, contextMenu, linkPreview,
                 pressed, prev>>

\* clearTopology
ClearTopology ==
  /\ pressed = <<>>
  /\ Tick
  /\ UNCHANGED <<zoomLevel, loading, exporterVars, panelVars>>
  /\ validationErrors' = <<>>
  /\ topology' = EmptyTopology
  /\ selectedNode' = NULL
  /\ selectedLink' = NULL
  /\ showNodeConfig' = FALSE
  /\ lastEvent' = [type |-> "clearTopology"]
  /\ UNCHANGED <<showLinkConfig, dragging, linking, canvasOffset, isPanning, panStart,
                 contextMenu, linkPreview, nextNodeId, nextLinkId, pressed, prev>>

Buttons == {0, 2}

Next ==
  \/ \E c \in Catalog, p \in Points : Drop(c, p)
  \/ \E id \in RenderedNodeIds, b \in Buttons, sh \in BOOLEAN, p \in Points :
       NodeMouseDown(id, b, sh, p)
  \/ \E id \in RenderedNodeIds : NodeMouseUp(id)
  \/ \E on \in {"canvas"} \cup RenderedLinkIds, b \in Buttons, p \in Points :
       CanvasMouseDown(on, b, p)
  \/ \E p \in Points : MouseMove(p)
  \/ \E on \in {"canvas"} \cup RenderedLinkIds : CanvasMouseUp(on)
  \/ \E key \in {"Delete", "Escape"} : KeyDown(key)
  \/ ContextMenuLeave
  \/ \E a \in {"configure", "duplicate", "delete"} : ContextMenuAction(a)
  \/ ContextMenuDeleteLink
  \/ \E i \in {1, 2}, v \in {""} \cup Keys(topology.nodes) : EndpointChange(i, v)
  \/ \E d \in LabDocs, ps \in [1..2 -> Points] : LoadTemplate(d, ps)
  \/ ClearTopology

Spec == Init /\ [][Next]_vars

\* ===================================================== the editor's claims
Panning == isPanning
DraggingNode == dragging # <<>>
Linking == linking # <<>>
NoGesture == ~Panning /\ ~DraggingNode /\ ~Linking

\* C2: in every reachable state of the canvas at most one of the gestures
\* Panning, DraggingNode and Linking is active.
C2_OneGestureAtATime ==
  /\ ~(Panning /\ DraggingNode)
  /\ ~(Panning /\ Linking)
  /\ ~(DraggingNode /\ Linking)

\* the nodes placed from the palette carry the config bag handleDrop gives them
PlacedFromPalette(node) ==
  /\ "config" \in DOMAIN node
  /\ Field(node, "kind") = "linux"
  /\ Field(node, "image") = "alpine:latest"

\* two palette nodes with different display names and the one link a linking
\* gesture between them has just made
C3_Scenario ==
  /\ lastEvent.type = "nodeMouseUp" /\ lastEvent.linked
  /\ Len(topology.nodes) = 2
  /\ \A i \in DOMAIN topology.nodes : PlacedFromPalette(topology.nodes[i].value)
  /\ topology.nodes[1].value.name # topology.nodes[2].value.name
  /\ Len(topology.links) = 1

\* C3: after placing A and B from the palette and linking A to B, validation
\* reports nothing and the compiled document has the two nodes under their
\* display names and the one link ["<A-name>:eth0", "<B-name>:eth0"].
C3_PlaceLinkCompile ==
  C3_Scenario =>
    LET link == topology.links[1]
        A == CHOOSE i \in DOMAIN topology.nodes :
               link.endpoints[1].node \in {topology.nodes[i].key, topology.nodes[i].value.id}
        B == CHOOSE i \in DOMAIN topology.nodes :
               link.endpoints[2].node \in {topology.nodes[i].key, topology.nodes[i].value.id}
        nameA == topology.nodes[A].value.name
        nameB == topology.nodes[B].value.name
    IN /\ isValid(topology)
       /\ ~CompileThrows(topology)
       /\ Keys(Compile(topology).topology.nodes) = {nameA, nameB}
       /\ Len(Compile(topology).topology.nodes) = 2
       /\ Compile(topology).topology.links =
            << [endpoints |-> << nameA \o ":eth0", nameB \o ":eth0" >>] >>

\* C6: from Linking(source, sourceInterface) a mouse-up over another node
\* appends exactly one link with endpoints (source, sourceInterface) and
\* (target, eth0), in that order, and clears linking; a mouse-up over the
\* source node makes no link.
C6_LinkCompletion ==
  [][(Linking /\ lastEvent'.type = "nodeMouseUp") =>
       IF lastEvent'.id # linking[1].sourceNode
       THEN /\ Len(topology'.links) = Len(topology.links) + 1
            /\ SubSeq(topology'.links, 1, Len(topology.links)) = topology.links
            /\ topology'.links[Len(topology'.links)].endpoints =
                 << [node |-> linking[1].sourceNode,
                     interface |-> linking[1].sourceInterface],
                    [node |-> lastEvent'.id, interface |-> "eth0"] >>
            /\ topology'.nodes = topology.nodes
            /\ linking' = <<>>
       ELSE topology' = topology]_vars

C6_Witness ==
  /\ lastEvent.type = "nodeMouseUp" /\ lastEvent.linked
  /\ linking = <<>>
  /\ Len(topology.links) = 2
  /\ topology.links[2].endpoints[1].node # topology.links[2].endpoints[2].node

\* C7: from Linking a mouse-up over empty canvas, or the Escape key, clears
\* linking and leaves the topology as it was, whether or not the pointer
\* moved while linking.
C7_CancelLinking ==
  [][(/\ Linking
      /\ \/ lastEvent'.type = "canvasMouseUp" /\ lastEvent'.on = "canvas"
         \/ lastEvent'.type = "keyDown" /\ lastEvent'.key = "Escape") =>
       (linking' = <<>> /\ topology' = topology)]_vars

\* C8: from DraggingNode every mouse-up clears dragging, wherever the button
\* is released, and with no button down no pointer move changes the topology.
C8_DragRelease ==
  [][/\ (DraggingNode /\ lastEvent'.type \in {"nodeMouseUp", "canvasMouseUp"}) =>
          dragging' = <<>>
     /\ (pressed = <<>> /\ lastEvent'.type = "mouseMove") =>
          topology'.nodes = topology.nodes]_vars

\* C9: selectedNode and selectedLink are never both set, and after a
\* primary-button mouse-down on empty canvas or an Escape key neither is set.
C9_AtMostOneSelected ==
  /\ ~(selectedNode # NULL /\ selectedLink # NULL)
  /\ (\/ /\ lastEvent.type = "canvasMouseDown"
         /\ lastEvent.on = "canvas"
         /\ lastEvent.button = 0
      \/ lastEvent.type = "keyDown" /\ lastEvent.key = "Escape") =>
       (selectedNode = NULL /\ selectedLink = NULL)

\* C10: with no gesture in progress the Delete key removes the selected node
\* from the topology and the selected link from the link sequence.
C10_DeleteRemovesSelection ==
  [][(NoGesture /\ lastEvent'.type = "keyDown" /\ lastEvent'.key = "Delete") =>
       /\ selectedNode # NULL =>
            \A i \in DOMAIN topology'.nodes :
              /\ topology'.nodes[i].key # selectedNode
              /\ Field(topology'.nodes[i].value, "id") # selectedNode
       /\ selectedLink # NULL =>
            \A i \in DOMAIN topology'.links : topology'.links[i].id # selectedLink]_vars

\* ============================================================ the viewport
\* Pan offset and zoom with the two coordinate transforms and the wheel zoom.
\* JavaScript numbers are modelled as exact rationals [n, d] in lowest terms
\* with d > 0; rounding of floating-point arithmetic is not modelled.

Abs(i) == IF i < 0 THEN -i ELSE i

RECURSIVE GCD(_, _)
GCD(a, b) == IF b = 0 THEN a ELSE GCD(b, a % b)

Rat(n, d) ==
  LET g == GCD(Abs(n), Abs(d))
      sign == IF d < 0 THEN -1 ELSE 1
  IN [n |-> (sign * n) \div g, d |-> (sign * d) \div g]

RAdd(a, b) == Rat(a.n * b.d + b.n * a.d, a.d * b.d)
RSub(a, b) == Rat(a.n * b.d - b.n * a.d, a.d * b.d)
RMul(a, b) == Rat(a.n * b.n, a.d * b.d)
RDiv(a, b) == Rat(a.n * b.d, a.d * b.n)
RLe(a, b) == a.n * b.d <= b.n * a.d
\* Math.max, Math.min
RMax(a, b) == IF RLe(a, b) THEN b ELSE a
RMin(a, b) == IF RLe(a, b) THEN a ELSE b

\* the zoom range of handleCanvasWheel
MinZoom == Rat(1, 10)
MaxZoom == Rat(3, 1)

\* getCanvasCoordinates under a viewport { zoomLevel, canvasOffset }
getCanvasCoordinatesIn(view, client) ==
  [x |-> RDiv(RSub(client.x, view.canvasOffset.x), view.zoomLevel),
   y |-> RDiv(RSub(client.y, view.canvasOffset.y), view.zoomLevel)]

getScreenCoordinates_NoOffset(view, canvasPoint) ==
  [x |-> RMul(canvasPoint.x, view.zoomLevel),
   y |-> RMul(canvasPoint.y, view.zoomLevel)]

getScreenCoordinates(view, canvasPoint) ==
  [x |-> RAdd(RMul(canvasPoint.x, view.zoomLevel), view.canvasOffset.x),
   y |-> RAdd(RMul(canvasPoint.y, view.zoomLevel), view.canvasOffset.y)]

\* a wheel step that does not clamp the zoom
handleCanvasWheel_NoClamp(view, deltaYPositive, client, rect) ==
  LET delta == IF deltaYPositive THEN Rat(9, 10) ELSE Rat(11, 10)
      centerX == RDiv(rect.width, Rat(2, 1))
      centerY == RDiv(rect.height, Rat(2, 1))
      offsetX == RMul(RSub(client.x, centerX), RSub(Rat(1, 1), delta))
      offsetY == RMul(RSub(client.y, centerY), RSub(Rat(1, 1), delta))
  IN [zoomLevel |-> RMul(view.zoomLevel, delta),
      canvasOffset |-> [x |-> RAdd(view.canvasOffset.x, offsetX),
                        y |-> RAdd(view.canvasOffset.y, offsetY)]]

\* handleCanvasWheel: the viewport after one wheel step at a pointer position
\* over a canvas rectangle of the given size
handleCanvasWheel(view, deltaYPositive, client, rect) ==
  LET delta == IF deltaYPositive THEN Rat(9, 10) ELSE Rat(11, 10)
      newZoom == RMax(MinZoom, RMin(MaxZoom, RMul(view.zoomLevel, delta)))
      centerX == RDiv(rect.width, Rat(2, 1))
      centerY == RDiv(rect.height, Rat(2, 1))
      offsetX == RMul(RSub(client.x, centerX), RSub(Rat(1, 1), delta))
      offsetY == RMul(RSub(client.y, centerY), RSub(Rat(1, 1), delta))
  IN [zoomLevel |-> newZoom,
      canvasOffset |-> [x |-> RAdd(view.canvasOffset.x, offsetX),
                        y |-> RAdd(view.canvasOffset.y, offsetY)]]

\* ---------------------------------------------------------------- inputs
Zooms == {Rat(1, 10), Rat(1, 2), Rat(1, 1), Rat(29, 10), Rat(3, 1)}
ViewOffsets == {[x |-> Rat(i, 1), y |-> Rat(j, 1)] : i, j \in -MaxCoord..MaxCoord}
ViewPoints == {[x |-> Rat(i, 1), y |-> Rat(j, 1)] : i, j \in Coords}
Rects == {[width |-> Rat(w, 1), height |-> Rat(h, 1)] : w, h \in 1..MaxRect}
ModelPoints == {[x |-> Rat(i, 2), y |-> Rat(j, 3)] : i, j \in -MaxCoord..MaxCoord}

View == [zoomLevel |-> zoomLevel, canvasOffset |-> canvasOffset]

InitView ==
  /\ topology = EmptyTopology
  /\ selectedNode = NULL
  /\ selectedLink = NULL
  /\ showNodeConfig = FALSE
  /\ showLinkConfig = FALSE
  /\ dragging = <<>>
  /\ linking = <<>>
  /\ isPanning = FALSE
  /\ panStart = [x |-> 0, y |-> 0]
  /\ contextMenu = <<>>
  /\ linkPreview = <<>>
  /\ pressed = <<>>
  /\ nextNodeId = 1
  /\ nextLinkId = 1
  /\ lastEvent = [type |-> "init"]
  /\ events = 0
  /\ zoomLevel \in Zooms
  /\ ExporterClosed
  /\ PanelClosed
  /\ loading = FALSE
  /\ validationErrors = <<>>
  /\ canvasOffset \in ViewOffsets
  /\ prev = View

\* the wheel turns over the canvas
WheelStep(deltaYPositive, client, rect) ==
  /\ Tick
  /\ LET view == handleCanvasWheel(View, deltaYPositive, client, rect)
     IN /\ zoomLevel' = view.zoomLevel
        /\ canvasOffset' = view.canvasOffset
  /\ prev' = View
  /\ lastEvent' = [type |-> "wheel", client |-> client, rect |-> rect,
                   deltaYPositive |-> deltaYPositive]
  /\ UNCHANGED <<topology, selectedNode, selectedLink, showNodeConfig, showLinkConfig,
                 dragging, linking, isPanning, panStart, contextMenu, linkPreview,
                 nextNodeId, nextLinkId, pressed, loading, exporterVars, panelVars,
                 validationErrors>>

\* one wheel step from the viewport handed in
Wheel(deltaYPositive, client, rect) ==
  /\ lastEvent.type = "init"
  /\ WheelStep(deltaYPositive, client, rect)

NextView == \E dy \in BOOLEAN, c \in ViewPoints, r \in Rects : Wheel(dy, c, r)

SpecView == InitView /\ [][NextView]_vars

\* C11: one wheel zoom step leaves the model-space point under the cursor
\* where it was, also when the clamp leaves the zoom unchanged.
C11_ZoomKeepsAnchor ==
  lastEvent.type = "wheel" =>
    getCanvasCoordinatesIn(View, lastEvent.client) =
      getCanvasCoordinatesIn(prev, lastEvent.client)

C13_AddThenRemoveLink ==
  lastEvent.type = "removeAddedLink" =>
    /\ topology.links = prev.links
    /\ topology.nodes = prev.nodes

C13_Witness ==
  /\ lastEvent.type = "removeAddedLink"
  /\ Len(prev.links) >= 2
  /\ prev.links[1] # prev.links[2]
  /\ topology.links = prev.links

\* ===================================================== validate and export
\* The two validators and the exporter applied to bounded input topologies:
\* topologies as node edits, loads and link gestures leave them.

EmptyConfig == [startup_config |-> "", env |-> <<>>, ports |-> <<>>, volumes |-> <<>>]

InputNode(n, name, kind, image) ==
  [id |-> NodeIdOf(n), name |-> name, kind |-> kind, image |-> image,
   position |-> Origin, config |-> EmptyConfig]

InputNames == {"r1", "R1", "r2"}

\* up to MaxNameNodes complete nodes with names drawn from InputNames
NameTopologies ==
  { [name |-> "custom-lab",
     nodes |-> [i \in DOMAIN names |->
                  [key |-> NodeIdOf(i),
                   value |-> InputNode(i, names[i], "linux", "alpine:latest")]],
     links |-> <<>>] :
      names \in UNION { [1..m -> InputNames] : m \in 0..MaxNameNodes } }

\* node n with each of its required fields filled in or empty
FieldShapes(n) ==
  { InputNode(n, name, kind, image) :
      name \in {"", "n" \o ToString(n)}, kind \in {"", "linux"},
      image \in {"", "alpine:latest"} }

\* up to MaxFieldNodes nodes whose required fields are filled in or empty
FieldTopologies ==
  UNION { { [name |-> "custom-lab",
             nodes |-> [i \in 1..m |-> [key |-> NodeIdOf(i), value |-> shapes[i]]],
             links |-> <<>>] :
              shapes \in { f \in [1..m -> UNION {FieldShapes(i) : i \in 1..m}] :
                             \A i \in 1..m : f[i] \in FieldShapes(i) } }
          : m \in 0..MaxFieldNodes }

\* m complete nodes, placed from the palette (with a config bag) or loaded
\* from a template (without one)
LinkedNodes(m, fromTemplate) ==
  [i \in 1..m |->
     [key |-> NodeIdOf(i),
      value |-> IF fromTemplate
                THEN TemplateNode(NodeIdOf(i), "n" \o ToString(i),
                                  [kind |-> "linux", image |-> "alpine:latest"], Origin)
                ELSE InputNode(i, "n" \o ToString(i), "linux", "alpine:latest")]]

\* complete nodes joined by up to MaxInputLinks links
LinkedTopologies ==
  UNION { LET t == [name |-> "custom-lab", nodes |-> LinkedNodes(m, ft), links |-> <<>>]
          IN { ModelLinks(t, ends) :
                 ends \in UNION { [1..k -> Keys(t.nodes) \X Keys(t.nodes)] :
                                    k \in 0..MaxInputLinks } }
          : m \in 1..MaxFieldNodes, ft \in BOOLEAN }

InputTopologies == NameTopologies \cup FieldTopologies \cup LinkedTopologies

SettingsChoices ==
  { DefaultSettings,
    [containerPrefix |-> "lab", includeManagement |-> FALSE,
     managementNetwork |-> "mgmt"] }

InitExport ==
  /\ topology \in InputTopologies
  /\ prev = topology
  /\ selectedNode = NULL
  /\ selectedLink = NULL
  /\ nextNodeId = MaxNameNodes + 1
  /\ nextLinkId = MaxInputLinks + 1
  /\ lastEvent = [type |-> "init"]
  /\ events = 0
  /\ zoomLevel = ZoomLevel
  /\ ExporterClosed
  /\ PanelClosed
  /\ loading = FALSE
  /\ validationErrors = <<>>
  /\ InitCanvas

builderVars == <<topology, selectedNode, selectedLink, showNodeConfig, showLinkConfig,
                 zoomLevel, nextNodeId, nextLinkId, prev>>

\* TopologyExporter renders: the issue list and the export text are computed
\* from the topology and the settings
ExporterRender(settings) ==
  /\ exportSettings' = settings
  /\ exportIssues' = validateTopology(topology)
  /\ exportContent' = exportContentOf(topology, settings)

\* the exporter is opened, or renders again with nothing changed
ExportRender ==
  /\ Tick
  /\ ExporterRender(exportSettings)
  /\ lastEvent' = [type |-> "exportRender", again |-> exportContent # <<>>]
  /\ UNCHANGED <<builderVars, canvasVars, loading, panelVars, validationErrors>>

\* a setting of the open exporter is changed
ChangeExportSettings(settings) ==
  /\ exportContent # <<>>
  /\ settings # exportSettings
  /\ Tick
  /\ ExporterRender(settings)
  /\ lastEvent' = [type |-> "exportSettings"]
  /\ UNCHANGED <<builderVars, canvasVars, loading, panelVars, validationErrors>>

\* the Validate button: LabBuilder.validateTopology
Validate ==
  /\ Tick
  /\ validationErrors' = BuilderValidationErrors(topology)
  /\ lastEvent' = [type |-> "validate"]
  /\ UNCHANGED <<builderVars, canvasVars, loading, exporterVars, panelVars>>

NextExport ==
  \/ ExportRender
  \/ \E s \in SettingsChoices : ChangeExportSettings(s)
  \/ Validate

SpecExport == InitExport /\ [][NextExport]_vars

NodeIdsOf(t) ==
  Keys(t.nodes) \cup {Field(t.nodes[i].value, "id") : i \in DOMAIN t.nodes}

\* C15: for a topology that passes the exporter's validation the compiled
\* document has one link entry per stored link, in the stored order, each the
\* pair "<name of endpoint 0's node>:<interface 0>", "<name of endpoint 1's
\* node>:<interface 1>", and one node entry per node under its display name;
\* no node id appears in it.
C15_CompiledLinksAndNodes ==
  (lastEvent.type = "exportRender" /\ exportIssues = <<>>) =>
    /\ ~CompileThrows(topology)
    /\ exportContent # <<"TypeError">>
    /\ LET doc == generateContainerlabYAML(topology, exportSettings.containerPrefix,
                                           exportSettings.includeManagement,
                                           exportSettings.managementNetwork)
           nameOf(id) == Get(topology.nodes, id).name
       IN /\ Len(doc.topology.links) = Len(topology.links)
          /\ \A i \in DOMAIN topology.links :
               doc.topology.links[i].endpoints =
                 << nameOf(topology.links[i].endpoints[1].node) \o ":"
                      \o topology.links[i].endpoints[1].interface,
                    nameOf(topology.links[i].endpoints[2].node) \o ":"
                      \o topology.links[i].endpoints[2].interface >>
          /\ Len(doc.topology.nodes) = Len(topology.nodes)
          /\ \A i \in DOMAIN topology.nodes :
               doc.topology.nodes[i].key = topology.nodes[i].value.name
          /\ \A id \in NodeIdsOf(topology) :
               /\ id \notin Keys(doc.topology.nodes)
               /\ \A i \in DOMAIN doc.topology.links, e \in {1, 2}, f \in Interfaces :
                    doc.topology.links[i].endpoints[e] # id \o ":" \o f

\* the display names that two or more nodes of the topology carry
SharedNames(t) ==
  {NodeNames(t)[i] : i \in {k \in DOMAIN t.nodes :
                              \E j \in DOMAIN t.nodes : j # k /\ NodeNames(t)[j] = NodeNames(t)[k]}}

\* the issues of a list that report duplicate names
DuplicateIssues(issues) ==
  SelectSeq(issues, LAMBDA m : /\ Len(m) >= Len("Duplicate node names")
                               /\ SubSeq(m, 1, Len("Duplicate node names")) = "Duplicate node names")

\* the issue lists name the values of a set, each once, in some order
NamesEachOnce(issue, prefix, values) ==
  \E s \in [1..Cardinality(values) -> values] :
    /\ \A i, j \in DOMAIN s : i # j => s[i] # s[j]
    /\ issue = prefix \o Join(s, ", ")

DuplicatesReported(issues, prefix, t) ==
  IF SharedNames(t) = {}
  THEN DuplicateIssues(issues) = <<>>
  ELSE /\ Len(DuplicateIssues(issues)) = 1
       /\ NamesEachOnce(DuplicateIssues(issues)[1], prefix, SharedNames(t))

\* C16: validation (the builder's Validate and the exporter's) reports exactly
\* one duplicate-name issue when two or more nodes carry the same display
\* name, compared exactly and case-sensitively, and none otherwise; that issue
\* names every duplicated value exactly once, however many nodes share it.
C16_OneDuplicateIssue ==
  /\ lastEvent.type = "validate" =>
       DuplicatesReported(validationErrors, "Duplicate node names found: ", topology)
  /\ lastEvent.type = "exportRender" =>
       DuplicatesReported(exportIssues, "Duplicate node names: ", topology)

C16_Witness ==
  /\ lastEvent.type = "exportRender"
  /\ \E i, j, k \in DOMAIN topology.nodes :
       /\ i < j /\ j < k
       /\ NodeNames(topology)[i] = "r1"
       /\ NodeNames(topology)[j] = "r1"
       /\ NodeNames(topology)[k] = "r1"
  /\ "R1" \in {NodeNames(topology)[i] : i \in DOMAIN topology.nodes}
  /\ DuplicateIssues(exportIssues) = << "Duplicate node names: r1" >>

\* the issues of a list that are about one node's fields
FieldIssues(issues) ==
  SelectSeq(issues, LAMBDA m : Len(m) >= Len("Node ") /\ SubSeq(m, 1, Len("Node ")) = "Node ")

\* how many of a node's required fields (name, image, kind) are empty
MissingFields(node) ==
  Cardinality({f \in {"name", "image", "kind"} : Falsy(Field(node, f))})

RECURSIVE MissingFieldsUpTo(_, _)
MissingFieldsUpTo(t, n) ==
  IF n = 0 THEN 0 ELSE MissingFieldsUpTo(t, n - 1) + MissingFields(t.nodes[n].value)

\* C17: validation (the builder's Validate and the exporter's) reports one
\* issue per missing required field per node: a node with k of name, image
\* and kind empty contributes exactly k issues, so the issues about node
\* fields number the empty required fields of all nodes.
C17_OneIssuePerMissingField ==
  /\ lastEvent.type = "validate" =>
       Len(FieldIssues(validationErrors)) = MissingFieldsUpTo(topology, Len(topology.nodes))
  /\ lastEvent.type = "exportRender" =>
       Len(FieldIssues(exportIssues)) = MissingFieldsUpTo(topology, Len(topology.nodes))

\* ===================================================== loading a document
\* A document is imported from a file or loaded from the lab browser into a
\* session that has a topology, a selection and a viewport.

\* the sessions a document is loaded into
SessionTopologies ==
  { EmptyTopology,
    ModelNodes({1}),
    ModelLinks(ModelNodes({1, 2}), << <<NodeIdOf(1), NodeIdOf(2)>> >>) }

\* the documents handed to the loaders: topologies, and JSON objects that
\* lack the node map, the link list, or the node a link refers to
LoadDocuments ==
  SessionTopologies
  \cup { [name |-> "lab"],
         [name |-> "lab", links |-> <<>>],
         [name |-> "lab", nodes |-> ModelNodes({1}).nodes],
         [name |-> "lab", nodes |-> ModelNodes({1}).nodes,
          links |-> << NewLink(LinkIdOf(1), [node |-> NodeIdOf(1)],
                               [node |-> NodeIdOf(MaxNodeIds)]) >>] }

\* the files the import dialog can be given: .json files whose text parses
\* to a document or does not parse, and YAML files
ImportFiles ==
  { [json |-> TRUE, parses |-> TRUE, data |-> d] : d \in LoadDocuments }
  \cup { [json |-> TRUE, parses |-> FALSE], [json |-> FALSE] }

\* the labs of the browser: saved topologies, and containerlab files whose
\* content request fails or answers with a document
BrowserLabs ==
  { [type |-> "topology", topology_data |-> d] : d \in LoadDocuments }
  \cup { [type |-> "clab", ok |-> TRUE, topology |-> d] : d \in LoadDocuments }
  \cup { [type |-> "clab", ok |-> FALSE] }

InitLoad ==
  /\ topology \in SessionTopologies
  /\ prev = topology
  /\ selectedNode \in {NULL} \cup Keys(topology.nodes)
  /\ selectedLink \in {NULL} \cup {topology.links[i].id : i \in DOMAIN topology.links}
  /\ showNodeConfig = (selectedNode # NULL)
  /\ showLinkConfig = (selectedLink # NULL)
  /\ dragging = <<>>
  /\ linking = <<>>
  /\ isPanning = FALSE
  /\ panStart = [x |-> 0, y |-> 0]
  /\ contextMenu = <<>>
  /\ linkPreview = <<>>
  /\ pressed = <<>>
  /\ nextNodeId = MaxModelNodes + 1
  /\ nextLinkId = MaxModelLinks + 1
  /\ lastEvent = [type |-> "init"]
  /\ events = 0
  /\ zoomLevel \in Zooms
  /\ canvasOffset \in ViewOffsets
  /\ ExporterClosed
  /\ PanelClosed
  /\ loading = FALSE
  /\ validationErrors \in {<<>>, BuilderValidationErrors(topology)}

\* LabBuilder.loadTopology
loadTopology(topologyData) ==
  /\ topology' = topologyData
  /\ selectedNode' = NULL
  /\ selectedLink' = NULL
  /\ showNodeConfig' = FALSE
  /\ validationErrors' = <<>>
  /\ canvasOffset' = [x |-> Rat(0, 1), y |-> Rat(0, 1)]
  /\ zoomLevel' = Rat(ZoomLevel, 1)

loadedVars == <<topology, selectedNode, selectedLink, showNodeConfig, validationErrors,
                canvasOffset, zoomLevel>>

\* what a load leaves alone
LoadFrame ==
  /\ prev' = topology
  /\ UNCHANGED <<showLinkConfig, dragging, linking, isPanning, panStart, contextMenu,
                 linkPreview, nextNodeId, nextLinkId, pressed, loading, exporterVars,
                 panelVars>>

\* TopologyControls.importFromFile: the chosen file is read; a .json file is
\* parsed and handed to handleLoad, which calls loadTopology
ImportFromFile(file) ==
  /\ lastEvent.type = "init"
  /\ Tick
  /\ IF file.json /\ file.parses
     THEN /\ loadTopology(file.data)
          /\ lastEvent' = [type |-> "importFromFile", loaded |-> TRUE, doc |-> file.data]
     ELSE /\ UNCHANGED loadedVars
          /\ lastEvent' = [type |-> "importFromFile", loaded |-> FALSE]
  /\ LoadFrame

\* LabBrowser.handleLoadLab: a saved topology is loaded directly, a
\* containerlab file after its content was fetched
HandleLoadLab(lab) ==
  /\ lastEvent.type = "init"
  /\ Tick
  /\ IF lab.type = "topology"
     THEN /\ loadTopology(lab.topology_data)
          /\ lastEvent' = [type |-> "handleLoadLab", loaded |-> TRUE,
                           doc |-> lab.topology_data]
     ELSE IF lab.ok
     THEN /\ loadTopology(lab.topology)
          /\ lastEvent' = [type |-> "handleLoadLab", loaded |-> TRUE, doc |-> lab.topology]
     ELSE /\ UNCHANGED loadedVars
          /\ lastEvent' = [type |-> "handleLoadLab", loaded |-> FALSE]
  /\ LoadFrame

NextLoad ==
  \/ \E file \in ImportFiles : ImportFromFile(file)
  \/ \E lab \in BrowserLabs : HandleLoadLab(lab)

SpecLoad == InitLoad /\ [][NextLoad]_vars

\* a document is a well-formed topology: it has a node map and a link list,
\* and every link's endpoints are nodes of the map
WellFormed(doc) ==
  /\ "nodes" \in DOMAIN doc
  /\ "links" \in DOMAIN doc
  /\ \A i \in DOMAIN doc.links, e \in {1, 2} :
       doc.links[i].endpoints[e].node \in Keys(doc.nodes)

\* C18: loading is all-or-nothing: a document that is not a well-formed
\* topology (no node map, no link list, or a link that refers to a node absent
\* from it) is rejected, and the session's topology, selection and viewport
\* stay exactly as they were.
C18_MalformedLoadRejected ==
  [][(/\ lastEvent'.type \in {"importFromFile", "handleLoadLab"}
      /\ lastEvent'.loaded => ~WellFormed(lastEvent'.doc))
       => UNCHANGED <<topology, selectedNode, selectedLink, canvasOffset, zoomLevel>>]_vars

\* ===================================================== the node panel
\* NodeConfigPanel shown for the selected node: its kind-template requests
\* and their answers, which arrive in any order.

\* the panel's config defaults
PanelDefaults ==
  [name |-> "", image |-> "", kind |-> "", type |-> "", startup_config |-> "",
   license |-> "", env |-> <<>>, ports |-> <<>>, volumes |-> <<>>, binds |-> <<>>,
   sysctls |-> <<>>, capabilities |-> <<>>, privileged |-> FALSE, user |-> "",
   group |-> "", cpu_limit |-> "", memory_limit |-> "",
   restart_policy |-> "unless-stopped", network_mode |-> "bridge",
   extra_hosts |-> <<>>]

\* {showNodeConfig && selectedNode && <NodeConfigPanel .../>}
PanelShown == showNodeConfig /\ selectedNode # NULL

\* node={topology.nodes[selectedNode]}
PanelNode == Get(topology.nodes, selectedNode)

\* the panel's config after its effect ran: { ...defaults, ...node }
PanelConfig == Spread(PanelDefaults, PanelNode)

\* the kinds offered by the panel's select, '' being "Select kind..."
PanelKinds == {"", "linux", "bridge"}

\* response.template of GET /api/containerlab/kinds/<kind>/template
KindTemplateOf(kind) == [kind |-> kind, default_type |-> kind \o "-default"]

\* what is entered in the panel's port, volume and bind inputs
PanelEntries == [ports |-> "8080:80", volumes |-> "data", binds |-> "/src:/dst"]

\* loadKindTemplate(kind): the requests outstanding after the call
loadKindTemplate(requests, kind) ==
  IF Falsy(kind) THEN requests ELSE Append(requests, kind)

\* the panel's effect on [node]: the requests outstanding after it ran
NodeEffect(requests, node) ==
  IF ~Falsy(Field(node, "kind"))
  THEN loadKindTemplate(requests, node.kind)
  ELSE requests

InitPanel ==
  /\ topology \in {ModelLinks(ModelNodes(1..MaxModelNodes), ends) :
                     ends \in { <<>>, << <<NodeIdOf(1), NodeIdOf(MaxModelNodes)>> >> }}
  /\ prev = topology
  /\ selectedNode = NULL
  /\ selectedLink = NULL
  /\ nextNodeId = MaxModelNodes + 1
  /\ nextLinkId = MaxModelLinks + 1
  /\ lastEvent = [type |-> "init"]
  /\ events = 0
  /\ zoomLevel = ZoomLevel
  /\ ExporterClosed
  /\ PanelClosed
  /\ loading = FALSE
  /\ validationErrors = <<>>
  /\ InitCanvas

\* what the panel's actions leave alone
PanelFrame ==
  UNCHANGED <<selectedLink, showLinkConfig, canvasVars, zoomLevel, loading, exporterVars,
              validationErrors, nextNodeId, nextLinkId, prev>>

\* a node is selected: the panel is shown for it and, when the node handed
\* to it changed, its effect runs
ShowNode(nodeId) ==
  /\ Tick
  /\ OnNodeSelect(nodeId)
  /\ IF PanelShown /\ selectedNode = nodeId
     THEN UNCHANGED panelVars
     ELSE /\ kindTemplate' = IF PanelShown THEN kindTemplate ELSE <<>>
          /\ templateRequests' =
               NodeEffect(IF PanelShown THEN templateRequests ELSE <<>>,
                          Get(topology.nodes, nodeId))
  /\ lastEvent' = [type |-> "showNode", id |-> nodeId]
  /\ UNCHANGED topology
  /\ PanelFrame

\* the panel's close button: the panel is unmounted, and answers that arrive
\* later set nothing
ClosePanel ==
  /\ PanelShown
  /\ Tick
  /\ showNodeConfig' = FALSE
  /\ kindTemplate' = <<>>
  /\ templateRequests' = <<>>
  /\ lastEvent' = [type |-> "closePanel"]
  /\ UNCHANGED <<topology, selectedNode>>
  /\ PanelFrame

\* the kind select changes: handleInputChange('kind', value), then
\* loadKindTemplate(value), then the effect of the updated node
ChangeKind(kind) ==
  /\ PanelShown
  /\ kind # PanelConfig.kind
  /\ Tick
  /\ topology' = updateNode(topology, selectedNode, Spread(PanelConfig, [kind |-> kind]))
  /\ templateRequests' =
       NodeEffect(loadKindTemplate(templateRequests, kind),
                  Get(topology'.nodes, selectedNode))
  /\ lastEvent' = [type |-> "changeKind", kind |-> kind]
  /\ UNCHANGED <<kindTemplate, selectedNode, showNodeConfig>>
  /\ PanelFrame

\* an outstanding request is answered, with the template or with an error
TemplateResponse(i, ok) ==
  /\ PanelShown
  /\ i \in DOMAIN templateRequests
  /\ Tick
  /\ kindTemplate' = IF ok THEN KindTemplateOf(templateRequests[i]) ELSE <<>>
  /\ templateRequests' =
       SubSeq(templateRequests, 1, i - 1)
         \o SubSeq(templateRequests, i + 1, Len(templateRequests))
  /\ lastEvent' = [type |-> "templateResponse", kind |-> templateRequests[i], ok |-> ok]
  /\ UNCHANGED <<topology, selectedNode, showNodeConfig>>
  /\ PanelFrame

\* the "apply template defaults" button, shown while a template is held
applyTemplateDefaults ==
  /\ PanelShown
  /\ kindTemplate # <<>>
  /\ Tick
  /\ LET updates == IF ~Falsy(kindTemplate.default_type) /\ Falsy(PanelConfig.type)
                    THEN [type |-> kindTemplate.default_type]
                    ELSE <<>>
     IN topology' = updateNode(topology, selectedNode, Spread(PanelConfig, updates))
  /\ templateRequests' = NodeEffect(templateRequests, Get(topology'.nodes, selectedNode))
  /\ lastEvent' = [type |-> "applyTemplateDefaults", template |-> kindTemplate]
  /\ UNCHANGED <<kindTemplate, selectedNode, showNodeConfig>>
  /\ PanelFrame

\* handleInputChange(field, value): the changed config is handed to
\* updateNode, and the effect of the updated node runs
PanelInputChange(field, value) ==
  /\ Tick
  /\ topology' = updateNode(topology, selectedNode, Spread(PanelConfig, (field :> value)))
  /\ templateRequests' = NodeEffect(templateRequests, Get(topology'.nodes, selectedNode))
  /\ lastEvent' = [type |-> "panelInput", field |-> field, value |-> value]
  /\ UNCHANGED <<kindTemplate, selectedNode, showNodeConfig>>
  /\ PanelFrame

\* addPort, addVolume and addBind with the text entered (a bind being entered
\* as source and target)
AddListEntry(field, entry) ==
  /\ PanelShown
  /\ ~Falsy(entry)
  /\ \A i \in DOMAIN PanelConfig[field] : PanelConfig[field][i] # entry
  /\ PanelInputChange(field, Append(PanelConfig[field], entry))

\* addEnvironmentVariable with the key and value entered
addEnvironmentVariable(newEnvKey, newEnvValue) ==
  /\ PanelShown
  /\ ~Falsy(newEnvKey) /\ ~Falsy(newEnvValue)
  /\ PanelInputChange("env", Put(PanelConfig.env, newEnvKey, newEnvValue))

NextPanel ==
  \/ \E id \in Keys(topology.nodes) : ShowNode(id)
  \/ \E f \in {"ports", "volumes", "binds"} : AddListEntry(f, PanelEntries[f])
  \/ addEnvironmentVariable("TZ", "UTC")
  \/ ExportRender
  \/ ClosePanel
  \/ \E kind \in PanelKinds : ChangeKind(kind)
  \/ \E i \in 1..MaxEvents, ok \in BOOLEAN : TemplateResponse(i, ok)
  \/ applyTemplateDefaults

SpecPanel == InitPanel /\ [][NextPanel]_vars

\* C19: when template requests overlap, the answer to a request for a kind
\* other than the kind of the node the panel shows is discarded: it leaves the
\* held template as it was, so that with no request outstanding the held
\* template is absent or the template of the shown node's kind.
C19_StaleResponseDiscarded ==
  [][(/\ lastEvent'.type = "templateResponse"
      /\ lastEvent'.kind # Field(PanelNode, "kind"))
       => kindTemplate' = kindTemplate]_vars

\* ===================================================== placed node names
\* /^[a-zA-Z0-9-_]+$/.test(s): non-empty, of letters, digits, '-' and '_'
IsIdentifierSafe(s) ==
  /\ Len(s) > 0
  /\ \A i \in 1..Len(s) :
       \E j \in 1..Len(UpperCase \o LowerCase \o Digits \o "-_") :
         SubSeq(UpperCase \o LowerCase \o Digits \o "-_", j, j) = SubSeq(s, i, i)

\* C20: every node created by a place operation is stored with a non-empty
\* display name made only of letters, digits, hyphens and underscores,
\* whatever characters the catalog item's name contains.
C20_PlacedNameIsSafe ==
  lastEvent.type = "drop" =>
    /\ HasKey(topology.nodes, NodeIdOf(nextNodeId - 1))
    /\ IsIdentifierSafe(Get(topology.nodes, NodeIdOf(nextNodeId - 1)).name)

\* ===================================================== compile completes
\* C21: compile never raises: for every topology the editor can hold, also
\* one whose nodes were installed by loadTemplate or loadTopology without a
\* nested config bag, computing the export text completes and returns a
\* document.
C21_CompileNeverRaises ==
  lastEvent.type \in {"exportRender", "exportSettings"} =>
    /\ exportContent # <<"TypeError">>
    /\ Len(exportContent) > 0
    /\ exportContent[1] = "name: \"" \o topology.name \o "\""

\* ===================================================== the context menu
\* no gesture is active and no menu is open
Idle == NoGesture /\ contextMenu = <<>>

\* the nodes the canvas renders with a given id
RenderedWithId(t, id) ==
  {i \in DOMAIN t.nodes : Field(t.nodes[i].value, "id") = id}

\* C22: a secondary-button press on a node opens the context menu for that
\* node with no gesture left active; choosing delete, duplicate or configure
\* performs exactly that operation on the menu's node and returns to Idle;
\* Escape or a press outside the menu closes it, leaves the topology
\* unchanged and returns to Idle.
C22_ContextMenu ==
  [][/\ (lastEvent'.type = "nodeMouseDown" /\ lastEvent'.button = 2) =>
          /\ contextMenu' = <<[type |-> "node", nodeId |-> lastEvent'.id]>>
          /\ NoGesture'
     /\ lastEvent'.type = "contextMenuAction" =>
          /\ Idle'
          /\ lastEvent'.action = "delete" =>
               /\ RenderedWithId(topology', lastEvent'.id) = {}
               /\ Len(topology'.nodes) = Len(topology.nodes) - 1
          /\ lastEvent'.action = "duplicate" =>
               /\ Len(topology'.nodes) = Len(topology.nodes) + 1
               /\ topology'.links = topology.links
          /\ lastEvent'.action = "configure" =>
               /\ selectedNode' = lastEvent'.id
               /\ showNodeConfig'
               /\ topology' = topology
     /\ (/\ contextMenu # <<>>
         /\ \/ lastEvent'.type = "keyDown" /\ lastEvent'.key = "Escape"
            \/ lastEvent'.type = "canvasMouseDown") =>
          /\ contextMenu' = <<>>
          /\ topology' = topology
          /\ NoGesture']_vars

\* ===================================================== the catalog request
\* LabBuilder starts with its catalog request (loadContainers) outstanding.
\* While loading is set it renders only the loading indicator: the canvas,
\* and with it the document's mouse and key listeners, is not mounted.

InitStartup ==
  /\ topology = EmptyTopology
  /\ prev = EmptyTopology
  /\ selectedNode = NULL
  /\ selectedLink = NULL
  /\ nextNodeId = 1
  /\ nextLinkId = 1
  /\ lastEvent = [type |-> "init"]
  /\ events = 0
  /\ zoomLevel = ZoomLevel
  /\ ExporterClosed
  /\ PanelClosed
  /\ loading = TRUE
  /\ validationErrors = <<>>
  /\ InitCanvas

\* loadContainers resolves (its requests answered or failed): setLoading(false)
ContainersLoaded ==
  /\ loading
  /\ Tick
  /\ loading' = FALSE
  /\ lastEvent' = [type |-> "containersLoaded"]
  /\ UNCHANGED <<builderVars, canvasVars, exporterVars, panelVars, validationErrors>>

\* a mouse button goes down or up, the mouse moves or a key is pressed on the
\* page while the loading indicator is shown: no handler is mounted
PageEvent(type, button) ==
  /\ loading
  /\ (type = "mouseDown") => pressed = <<>>
  /\ (type = "mouseUp") => pressed # <<>>
  /\ Tick
  /\ pressed' = IF type = "mouseDown"
                THEN <<[on |-> "page", id |-> "page", button |-> button]>>
                ELSE IF type = "mouseUp" THEN <<>> ELSE pressed
  /\ lastEvent' = [type |-> type, button |-> button]
  /\ UNCHANGED <<builderVars, dragging, linking, canvasOffset, isPanning, panStart,
                 contextMenu, linkPreview, loading, exporterVars, panelVars,
                 validationErrors>>

\* once the catalog is loaded the editor is rendered
NextStartup ==
  \/ ContainersLoaded
  \/ \E type \in {"mouseDown", "mouseMove", "mouseUp", "keyDown"}, b \in Buttons :
       PageEvent(type, b)
  \/ ~loading /\ Next

SpecStartup == InitStartup /\ [][NextStartup]_vars

\* C23: while the catalog request is outstanding the canvas keeps processing
\* pointer and key events: a primary-button press on the canvas background
\* starts a pan, and the pointer's movement then moves the viewport, before
\* the request resolves.
C23_InteractiveWhileLoading ==
  [][(loading /\ lastEvent'.type = "mouseDown" /\ lastEvent'.button = 0)
       => isPanning']_vars

\* ===================================================== the zoom range
\* Sequences of wheel steps, pans, loads and clears, from the initial zoom
\* and from the two zooms the clamp produces.

ZoomStarts == {Rat(ZoomLevel, 1), MinZoom, MaxZoom}
ZoomPoints == {[x |-> Rat(i, 1), y |-> Rat(i, 1)] : i \in Coords}
ZoomRect == [width |-> Rat(MaxRect, 1), height |-> Rat(MaxRect, 1)]

InitZoom ==
  /\ topology \in {EmptyTopology, ModelNodes({1})}
  /\ selectedNode = NULL
  /\ selectedLink = NULL
  /\ showNodeConfig = FALSE
  /\ showLinkConfig = FALSE
  /\ dragging = <<>>
  /\ linking = <<>>
  /\ isPanning = FALSE
  /\ panStart = [x |-> Rat(0, 1), y |-> Rat(0, 1)]
  /\ contextMenu = <<>>
  /\ linkPreview = <<>>
  /\ pressed = <<>>
  /\ nextNodeId = MaxModelNodes + 1
  /\ nextLinkId = 1
  /\ lastEvent = [type |-> "init"]
  /\ events = 0
  /\ zoomLevel \in ZoomStarts
  /\ ExporterClosed
  /\ PanelClosed
  /\ loading = FALSE
  /\ validationErrors = <<>>
  /\ canvasOffset = [x |-> Rat(0, 1), y |-> Rat(0, 1)]
  /\ prev = View

\* what the viewport's mouse handlers leave alone
ViewFrame ==
  /\ prev' = View
  /\ UNCHANGED <<topology, selectedLink, showLinkConfig, zoomLevel, dragging, linking,
                 linkPreview, nextNodeId, nextLinkId, loading, exporterVars, panelVars,
                 validationErrors>>

\* handleCanvasMouseDown, primary button on the canvas background
ViewMouseDown(client) ==
  /\ pressed = <<>>
  /\ Tick
  /\ pressed' = <<[on |-> "canvas", id |-> "canvas", button |-> 0]>>
  /\ isPanning' = TRUE
  /\ panStart' = [x |-> RSub(client.x, canvasOffset.x), y |-> RSub(client.y, canvasOffset.y)]
  /\ OnNodeSelect(NULL)
  /\ contextMenu' = <<>>
  /\ lastEvent' = [type |-> "canvasMouseDown", on |-> "canvas", button |-> 0]
  /\ UNCHANGED canvasOffset
  /\ ViewFrame

\* handleCanvasMouseMove with no node dragged and no link started
ViewMouseMove(client) ==
  /\ Tick
  /\ canvasOffset' = IF isPanning
                     THEN [x |-> RSub(client.x, panStart.x), y |-> RSub(client.y, panStart.y)]
                     ELSE canvasOffset
  /\ lastEvent' = [type |-> "mouseMove"]
  /\ UNCHANGED <<selectedNode, showNodeConfig, isPanning, panStart, contextMenu, pressed>>
  /\ ViewFrame

\* handleCanvasMouseUp
ViewMouseUp ==
  /\ pressed # <<>>
  /\ Tick
  /\ pressed' = <<>>
  /\ isPanning' = FALSE
  /\ lastEvent' = [type |-> "canvasMouseUp", on |-> "canvas"]
  /\ UNCHANGED <<selectedNode, showNodeConfig, canvasOffset, panStart, contextMenu>>
  /\ ViewFrame

\* a document is loaded: loadTopology
ViewLoad(topologyData) ==
  /\ pressed = <<>>
  /\ Tick
  /\ loadTopology(topologyData)
  /\ prev' = View
  /\ lastEvent' = [type |-> "loadTopology"]
  /\ UNCHANGED <<showLinkConfig, dragging, linking, isPanning, panStart, contextMenu,
                 linkPreview, nextNodeId, nextLinkId, pressed, loading, exporterVars,
                 panelVars>>

NextZoom ==
  \/ \E dy \in BOOLEAN, c \in ZoomPoints : WheelStep(dy, c, ZoomRect)
  \/ \E c \in ZoomPoints : ViewMouseDown(c)
  \/ \E c \in ZoomPoints : ViewMouseMove(c)
  \/ ViewMouseUp
  \/ \E d \in {EmptyTopology, ModelNodes({1})} : ViewLoad(d)
  \/ ClearTopology

SpecZoom == InitZoom /\ [][NextZoom]_vars

\* C24: in every reachable state the zoom factor lies in [0.1, 3.0], after
\* any sequence of wheel steps, pans, loads and clears.
C24_ZoomInRange ==
  /\ RLe(MinZoom, zoomLevel)
  /\ RLe(zoomLevel, MaxZoom)

\* the clamp acted on a wheel step that followed another one
C24_Witness ==
  /\ lastEvent.type = "wheel"
  /\ events >= 3
  /\ zoomLevel = MaxZoom
  /\ prev.zoomLevel # MaxZoom
  /\ RLe(MaxZoom, RMul(prev.zoomLevel, Rat(11, 10)))

\* ===================================================== optional sections
\* a top-level line of the export text starts with the given key
HasSection(content, key) ==
  \E i \in DOMAIN content :
    /\ Len(content[i]) >= Len(key) + 1
    /\ SubSeq(content[i], 1, Len(key) + 1) = key \o ":"

\* C25: the compiled document has the container-name prefix section only
\* when the prefix setting differs from its default, and the management
\* network block only when the management settings differ from their
\* defaults; with every export setting at its default neither appears.
C25_OptionalSections ==
  (lastEvent.type \in {"exportRender", "exportSettings"} /\ ~CompileThrows(topology)) =>
    /\ HasSection(exportContent, "prefix") <=>
         exportSettings.containerPrefix # DefaultContainerPrefix
    /\ HasSection(exportContent, "mgmt") <=>
         \/ exportSettings.includeManagement # DefaultIncludeManagement
         \/ exportSettings.managementNetwork # DefaultManagementNetwork

\* ===================================================== ids and keys
\* C26: in every reachable state each node is stored under its own id: the
\* node stored at key k of the node map has id = k, also when it was placed
\* by a palette drop or by the context menu's duplicate.
C26_StoredUnderOwnId ==
  \A i \in DOMAIN topology.nodes :
    Field(topology.nodes[i].value, "id") = topology.nodes[i].key

\* ===================================================== link endpoints
\* C27: after any sequence of editor operations (place, drag, linking
\* gesture, endpoint edits in the link panel, node deletion, link deletion,
\* clear) every endpoint of every stored link refers to a node id that is a
\* key of the node map.
C27_NoDanglingEndpoint ==
  \A i \in DOMAIN topology.links, e \in {1, 2} :
    topology.links[i].endpoints[e].node \in Keys(topology.nodes)

\* ===================================================== panel values exported
\* C28: environment variables, port mappings, volumes and binds set on a
\* node through the node panel appear in that node's entry of the compiled
\* document on the next compile.
C28_PanelValuesExported ==
  (/\ lastEvent.type = "exportRender"
   /\ PanelShown
   /\ ~CompileThrows(topology)) =>
    LET doc == generateContainerlabYAML(topology, exportSettings.containerPrefix,
                                        exportSettings.includeManagement,
                                        exportSettings.managementNetwork)
        entry == Get(doc.topology.nodes, PanelNode.name)
    IN \A f \in {"env", "ports", "volumes", "binds"} :
         PanelConfig[f] # <<>> => (f \in DOMAIN entry /\ entry[f] = PanelConfig[f])
\* ===================================================== linking source
\* C29: whenever the linking gesture is active its source node is present in
\* the topology; after a node deletion (Delete key or context menu),
\* clearTopology, loadTopology or loadTemplate, linking is cleared or still
\* names a key of the node map, so the link preview dereferences no missing
\* node.
C29_LinkingSourcePresent ==
  linking # <<>> => linking[1].sourceNode \in Keys(topology.nodes)

\* ===================================================== selection validity
\* C30: in every reachable state selectedNode is unset or a key of the node
\* map, and selectedLink is unset or the id of a link of the link sequence,
\* also after removeNode has cascaded away the selected link.
C30_SelectionValid ==
  /\ selectedNode = NULL \/ selectedNode \in Keys(topology.nodes)
  /\ selectedLink = NULL \/ \E i \in DOMAIN topology.links : topology.links[i].id = selectedLink

====
